---------------------------- MODULE Spec2Model ----------------------------
(***************************************************************************)
(* A model of the lsm-engine storage engine (package lsm): the write-ahead *)
(* log (wal.go), the memtable (memtable.go), the SSTable writer and reader *)
(* (sstable.go, sstable_reader.go), the compactor (compaction.go) and the  *)
(* engine glue (db.go, db_internal.go).                                    *)
(*                                                                         *)
(* Byte slices are sequences of numbers 0..255.  A Go []byte that may be   *)
(* nil is a record [isnil, b]: Go code compares values with nil, and a     *)
(* nil slice and an empty non-nil slice both have length 0.                *)
(***************************************************************************)
EXTENDS Integers, Sequences, FiniteSets, TLC

(***************************************************************************)
(* Bounds of the model.                                                    *)
(***************************************************************************)
\* Put/Delete calls (acknowledged, failed or cut by a crash) in one behaviour.
MaxOps == 4
\* Crashes in one behaviour.
MaxCrashes == 2

\* ... and the number of Puts and Deletes of a workload with such crashes.
MaxCrashOps == 3

\* The workloads with crashes inside flush: Puts and Deletes, crashes.
MaxFlushOps == 4

MaxFlushCrashes == 1
\* WAL appends that fail with an I/O error in one behaviour.
MaxIOErrors == 1
\* The memtable threshold the engine is opened with, in bytes.  The code
\* passes DefaultMemtableSize (4 MiB) to NewMemtable; the model passes this
\* small threshold so that flushes and compactions happen within MaxOps.
MemtableThreshold == 3
\* Chunks (records, torn records, garbage) of a log file in SpecWAL.
MaxChunks == 3
\* SSTable files given to Compact in SpecTable.
MaxInputs == 3
\* The number of items the filters of SpecBloom are made for.
MaxItems == 3
\* The workloads with a flush or a compaction that fails: Puts and
\* Deletes, failures.
MaxFailOps == 5

MaxFailures == 1
\* ... with two failures, so that a flush fails after an append failed.
MaxTwiceOps == 3

MaxTwiceFailures == 2
\* ... long enough for a failing compaction that has a level-1 input.
MaxFailLongOps == 8
\* The workloads long enough for a second compaction: Puts and Deletes.
MaxLongOps == 8
\* The memtable alone: Puts and Deletes.
MaxMemOps == 4
\* The workloads with a compaction in which a read of an entry fails: Puts
\* and Deletes, failed reads.
MaxSkipOps == 5

MaxSkips == 1

(***************************************************************************)
(* Bytes and unsigned 32-bit words.  A word is its 4 little-endian bytes.  *)
(***************************************************************************)
Nil == [isnil |-> TRUE, b |-> <<>>]

Bytes(s) == [isnil |-> FALSE, b |-> s]

RECURSIVE XorBits(_, _, _)
XorBits(a, b, n) ==
    IF n = 0 THEN 0
    ELSE ((a + b) % 2) + 2 * XorBits(a \div 2, b \div 2, n - 1)

Xor4 == [a \in 0..15 |-> [b \in 0..15 |-> XorBits(a, b, 4)]]

Xor8(a, b) == 16 * Xor4[a \div 16][b \div 16] + Xor4[a % 16][b % 16]

XorWord(x, y) == <<Xor8(x[1], y[1]), Xor8(x[2], y[2]), Xor8(x[3], y[3]), Xor8(x[4], y[4])>>

\* binary.LittleEndian.PutUint32 of a length (the model's lengths are small).
PutUint32(n) == <<n % 256, (n \div 256) % 256, (n \div 65536) % 256, (n \div 16777216) % 256>>

\* x + y in uint32 arithmetic (wraps at 2^32), on little-endian words.
AddUint32(x, y) ==
    LET s1 == x[1] + y[1]
        s2 == x[2] + y[2] + (s1 \div 256)
        s3 == x[3] + y[3] + (s2 \div 256)
        s4 == x[4] + y[4] + (s3 \div 256)
    IN  <<s1 % 256, s2 % 256, s3 % 256, s4 % 256>>

\* x < y for uint32 words.
LessUint32(x, y) ==
    \/ x[4] < y[4]
    \/ x[4] = y[4] /\ x[3] < y[3]
    \/ x[4] = y[4] /\ x[3] = y[3] /\ x[2] < y[2]
    \/ x[4] = y[4] /\ x[3] = y[3] /\ x[2] = y[2] /\ x[1] < y[1]

\* x - y in uint32 arithmetic (wraps below 0).
SubUint32(x, y) ==
    LET d1 == x[1] - y[1]
        d2 == x[2] - y[2] - (IF d1 < 0 THEN 1 ELSE 0)
        d3 == x[3] - y[3] - (IF d2 < 0 THEN 1 ELSE 0)
        d4 == x[4] - y[4] - (IF d3 < 0 THEN 1 ELSE 0)
    IN  <<(d1 + 256) % 256, (d2 + 256) % 256, (d3 + 256) % 256, (d4 + 256) % 256>>

\* binary.LittleEndian.Uint32: the number a word stands for.  The model
\* takes it of words below 2^31 only (their last byte is below 128); a word
\* that may be larger is compared as a word, or its last byte is tested first.
Uint32(x) == x[1] + 256 * x[2] + 65536 * x[3] + 16777216 * x[4]

\* s[from+1 .. to] in 1-based terms: the Go slice s[from:to].
Slice(s, from, to) == SubSeq(s, from + 1, to)

(***************************************************************************)
(* hash/crc32: ChecksumIEEE, table driven, polynomial 0xEDB88320.          *)
(***************************************************************************)
CrcPoly == <<32, 131, 184, 237>>

ShiftRight1(x) ==
    << (x[1] \div 2) + 128 * (x[2] % 2),
       (x[2] \div 2) + 128 * (x[3] % 2),
       (x[3] \div 2) + 128 * (x[4] % 2),
       x[4] \div 2 >>

RECURSIVE CrcTableEntry(_, _)
CrcTableEntry(c, n) ==
    IF n = 0 THEN c
    ELSE CrcTableEntry(IF c[1] % 2 = 1 THEN XorWord(ShiftRight1(c), CrcPoly)
                                       ELSE ShiftRight1(c), n - 1)

CrcTable == [i \in 0..255 |-> CrcTableEntry(<<i, 0, 0, 0>>, 8)]

RECURSIVE CrcUpdate(_, _, _)
\* The loop of crc32.Update over the bytes of s from the i-th on.  The
\* checksum c is always a word of 4 bytes; asking for its length has each
\* round's word computed before the next round starts, which keeps the
\* evaluation as shallow as the loop of the code.
CrcUpdate(c, s, i) ==
    IF i > Len(s) \/ Len(c) # 4 THEN c
    ELSE LET t == CrcTable[Xor8(c[1], s[i])]
         IN  CrcUpdate(<<Xor8(t[1], c[2]), Xor8(t[2], c[3]), Xor8(t[3], c[4]), t[4]>>, s, i + 1)

ChecksumIEEE(s) == XorWord(CrcUpdate(<<255, 255, 255, 255>>, s, 1), <<255, 255, 255, 255>>)


(***************************************************************************)
(* wal.go: the record format, Append's encoding, Replay and decodePayload. *)
(***************************************************************************)
OpPut == 1

OpDelete == 2

WALEntry(op, key, value) == [Op |-> op, Key |-> key, Value |-> value]

\* A file of the directory: absent, or its bytes.
NoFile == [exists |-> FALSE, bytes |-> <<>>]

File(s) == [exists |-> TRUE, bytes |-> s]

\* The payload Append builds: op, key length, key, value length, value.
Payload(entry) ==
    <<entry.Op>> \o PutUint32(Len(entry.Key)) \o entry.Key
                 \o PutUint32(Len(entry.Value.b)) \o entry.Value.b

\* The record Append writes: payload length, CRC32 of the payload, payload.
Record(entry) ==
    LET payload == Payload(entry)
    IN  PutUint32(Len(payload)) \o ChecksumIEEE(payload) \o payload

\* Replay's sanity bound on a record's declared length: 64 MiB.
MaxRecordLength == <<0, 0, 0, 4>>

DecodeError == [ok |-> FALSE, panic |-> FALSE, entry |-> WALEntry(0, <<>>, Nil)]

DecodePanic == [ok |-> FALSE, panic |-> TRUE, entry |-> WALEntry(0, <<>>, Nil)]

\* decodePayload.  The length checks are in uint32 arithmetic, as in the
\* code; a slice expression whose bounds are out of range panics.
decodePayload(payload) ==
    IF Len(payload) < 9 THEN DecodeError
    ELSE
      LET n      == PutUint32(Len(payload))
          op     == payload[1]
          keyLen == Slice(payload, 1, 5)
          keyEnd == AddUint32(<<5, 0, 0, 0>>, keyLen)
      IN  IF LessUint32(n, AddUint32(keyEnd, <<4, 0, 0, 0>>)) THEN DecodeError
          ELSE IF LessUint32(n, keyEnd) \/ LessUint32(keyEnd, <<5, 0, 0, 0>>) THEN DecodePanic
          ELSE
            LET valOff == Uint32(keyEnd)
                key    == Slice(payload, 5, valOff)
                valLen == Slice(payload, valOff, valOff + 4)
                valBeg == AddUint32(keyEnd, <<4, 0, 0, 0>>)
                valEnd == AddUint32(valBeg, valLen)
            IN  IF LessUint32(n, valEnd) THEN DecodeError
                ELSE IF LessUint32(valEnd, valBeg) THEN DecodePanic
                ELSE [ok |-> TRUE, panic |-> FALSE,
                      entry |-> WALEntry(op, key,
                                  Bytes(Slice(payload, valOff + 4, Uint32(valEnd))))]

\* Replay's loop from byte offset pos, with the entries read so far.
RECURSIVE ReplayFrom(_, _, _)
ReplayFrom(f, pos, entries) ==
    LET stop == [entries |-> entries, panic |-> FALSE]
    IN  IF pos + 8 > Len(f) THEN stop
        ELSE
          LET length    == Slice(f, pos, pos + 4)
              storedCRC == Slice(f, pos + 4, pos + 8)
          IN  IF LessUint32(MaxRecordLength, length) THEN stop
              ELSE
                LET end == pos + 8 + Uint32(length)
                IN  IF end > Len(f) THEN stop
                    ELSE
                      LET payload == Slice(f, pos + 8, end)
                      IN  IF ChecksumIEEE(payload) # storedCRC THEN stop
                          ELSE
                            LET d == decodePayload(payload)
                            IN  IF d.panic THEN [entries |-> entries, panic |-> TRUE]
                                ELSE IF ~d.ok THEN stop
                                ELSE ReplayFrom(f, end, Append(entries, d.entry))

\* Replay: a missing file yields no entries and no error.
Replay(file) ==
    IF ~file.exists THEN [entries |-> <<>>, panic |-> FALSE]
    ELSE ReplayFrom(file.bytes, 0, <<>>)

(***************************************************************************)
(* memtable.go                                                             *)
(***************************************************************************)
\* Go's string comparison a < b: lexicographic on the bytes.
RECURSIVE KeyLess(_, _)
KeyLess(a, b) ==
    IF b = <<>> THEN FALSE
    ELSE IF a = <<>> THEN TRUE
    ELSE IF a[1] # b[1] THEN a[1] < b[1]
    ELSE KeyLess(Tail(a), Tail(b))

\* sort.Search(n, f) for f(i) == keys[i+1] >= key: Go's binary search.
RECURSIVE SortSearch(_, _, _, _)
SortSearch(keys, key, i, j) ==
    IF i >= j THEN i
    ELSE LET h == (i + j) \div 2
         IN  IF KeyLess(keys[h + 1], key) THEN SortSearch(keys, key, h + 1, j)
             ELSE SortSearch(keys, key, i, h)

memEntry(key, value, tombstone) == [key |-> key, value |-> value, tombstone |-> tombstone]

NewMemtable(threshold) == [entries |-> <<>>, size |-> 0, threshold |-> threshold]

\* Memtable.search: the 0-based index where key is or would be inserted.
search(m, key) ==
    SortSearch([i \in 1..Len(m.entries) |-> m.entries[i].key], key, 0, Len(m.entries))

\* The slice with e inserted at 0-based index idx.
InsertAt(s, idx, e) == SubSeq(s, 1, idx) \o <<e>> \o SubSeq(s, idx + 1, Len(s))

\* A Put that leaves the tombstone flag of an existing entry as it is.
MemtablePutKeepingFlag(m, key, value) ==
    LET idx == search(m, key)
    IN  IF idx < Len(m.entries) /\ m.entries[idx + 1].key = key
        THEN [m EXCEPT !.entries[idx + 1] = memEntry(key, value, m.entries[idx + 1].tombstone),
                       !.size = m.size - Len(m.entries[idx + 1].value.b) + Len(value.b)]
        ELSE [m EXCEPT !.entries = InsertAt(m.entries, idx, memEntry(key, value, FALSE)),
                       !.size = m.size + Len(key) + Len(value.b) + 1]

MemtablePut(m, key, value) ==
    LET idx == search(m, key)
    IN  IF idx < Len(m.entries) /\ m.entries[idx + 1].key = key
        THEN [m EXCEPT !.entries[idx + 1] = memEntry(key, value, FALSE),
                       !.size = m.size - Len(m.entries[idx + 1].value.b) + Len(value.b)]
        ELSE [m EXCEPT !.entries = InsertAt(m.entries, idx, memEntry(key, value, FALSE)),
                       !.size = m.size + Len(key) + Len(value.b) + 1]

\* Memtable.Get: (value, found); a tombstone is (nil, true).
MemtableGet(m, key) ==
    LET idx == search(m, key)
    IN  IF idx < Len(m.entries) /\ m.entries[idx + 1].key = key
        THEN IF m.entries[idx + 1].tombstone
             THEN [value |-> Nil, found |-> TRUE]
             ELSE [value |-> m.entries[idx + 1].value, found |-> TRUE]
        ELSE [value |-> Nil, found |-> FALSE]

\* A Delete that drops the entry of a key that is already a tombstone.
MemtableDeleteDropping(m, key) ==
    LET idx == search(m, key)
    IN  IF idx < Len(m.entries) /\ m.entries[idx + 1].key = key
        THEN IF m.entries[idx + 1].tombstone
             THEN [m EXCEPT !.entries = SubSeq(m.entries, 1, idx)
                                        \o SubSeq(m.entries, idx + 2, Len(m.entries)),
                            !.size = m.size - Len(key) - 1]
             ELSE [m EXCEPT !.entries[idx + 1] = memEntry(key, Nil, TRUE),
                            !.size = m.size - Len(m.entries[idx + 1].value.b)]
        ELSE [m EXCEPT !.entries = InsertAt(m.entries, idx, memEntry(key, Nil, TRUE)),
                       !.size = m.size + Len(key) + 1]

\* A Delete of an existing key that leaves the tracked size as it was.
MemtableDeleteKeepingSize(m, key) ==
    LET idx == search(m, key)
    IN  IF idx < Len(m.entries) /\ m.entries[idx + 1].key = key
        THEN [m EXCEPT !.entries[idx + 1] = memEntry(key, Nil, TRUE)]
        ELSE [m EXCEPT !.entries = InsertAt(m.entries, idx, memEntry(key, Nil, TRUE)),
                       !.size = m.size + Len(key) + 1]

\* Memtable.Delete
MemtableDelete(m, key) ==
    LET idx == search(m, key)
    IN  IF idx < Len(m.entries) /\ m.entries[idx + 1].key = key
        THEN [m EXCEPT !.entries[idx + 1] = memEntry(key, Nil, TRUE),
                       !.size = m.size - Len(m.entries[idx + 1].value.b)]
        ELSE [m EXCEPT !.entries = InsertAt(m.entries, idx, memEntry(key, Nil, TRUE)),
                       !.size = m.size + Len(key) + 1]

\* An IsFull that waits until the size is above the threshold.
IsFullAbove(m) == m.size > m.threshold

\* Memtable.IsFull
IsFull(m) == m.size >= m.threshold

(***************************************************************************)
(* bloom.go                                                                *)
(***************************************************************************)
\* One step of 64-bit FNV-1a on the 8 little-endian bytes of the hash:
\* h * 0x100000001B3 = h * 435 + h * 2^40, modulo 2^64.
\* The product is built byte by byte: acc holds the i - 1 bytes done and
\* the hash is always 8 bytes; the tests of the lengths have each round's
\* result computed before the next round starts.
RECURSIVE FnvCarry(_, _, _, _)
FnvCarry(h, i, carry, acc) ==
    IF i > 8 \/ Len(acc) # i - 1 THEN acc
    ELSE LET p == h[i] * 435 + (IF i > 5 THEN h[i - 5] ELSE 0) + carry
         IN  FnvCarry(h, i + 1, p \div 256, Append(acc, p % 256))

RECURSIVE Fnv64a(_, _, _)
Fnv64a(h, key, i) ==
    IF i > Len(key) \/ Len(h) # 8 THEN h
    ELSE Fnv64a(FnvCarry([h EXCEPT ![1] = Xor8(h[1], key[i])], 1, 0, <<>>), key, i + 1)

\* BloomFilter.hash: the two 32-bit halves of the FNV-1a hash of the key.
hash(key) ==
    LET sum == Fnv64a(<<37, 35, 34, 132, 228, 156, 242, 203>>, key, 1)
        h2  == SubSeq(sum, 5, 8)
    IN  [h1 |-> SubSeq(sum, 1, 4), h2 |-> IF h2 = <<0, 0, 0, 0>> THEN <<1, 0, 0, 0>> ELSE h2]

\* b * y in uint32 arithmetic (wraps at 2^32), for a byte b and a word y.
MulByte(b, y) ==
    LET p1 == b * y[1]
        p2 == b * y[2] + (p1 \div 256)
        p3 == b * y[3] + (p2 \div 256)
        p4 == b * y[4] + (p3 \div 256)
    IN  <<p1 % 256, p2 % 256, p3 % 256, p4 % 256>>

\* x * y in uint32 arithmetic (wraps at 2^32), on little-endian words.
MulUint32(x, y) ==
    LET p1 == x[1] * y[1]
        p2 == x[1] * y[2] + x[2] * y[1] + (p1 \div 256)
        p3 == x[1] * y[3] + x[2] * y[2] + x[3] * y[1] + (p2 \div 256)
        p4 == x[1] * y[4] + x[2] * y[3] + x[3] * y[2] + x[4] * y[1] + (p3 \div 256)
    IN  <<p1 % 256, p2 % 256, p3 % 256, p4 % 256>>

Pow2(n) == CASE n = 0 -> 1 [] n = 1 -> 2 [] n = 2 -> 4 [] n = 3 -> 8
             [] n = 4 -> 16 [] n = 5 -> 32 [] n = 6 -> 64 [] n = 7 -> 128

\* x % m for the uint32 word x and a number m from 1 to 2^23 - 1, byte by
\* byte: a number.
ModSmall(x, m) == ((((((x[4] % m) * 256 + x[3]) % m) * 256 + x[2]) % m) * 256 + x[1]) % m

RECURSIVE RemUint32(_, _, _, _)
\* x % m by long division in base 2, for words x and m, m not 0: r is the
\* remainder of the bits of x above bit k, and bit k is taken next.  Twice r
\* and the bit may pass 2^32 (the top bit of r is set); the difference of
\* the words is the remainder all the same.
RemUint32(x, m, k, r) ==
    IF k < 0 \/ Len(r) # 4 THEN r
    ELSE LET d == AddUint32(AddUint32(r, r),
                            <<(x[(k \div 8) + 1] \div Pow2(k % 8)) % 2, 0, 0, 0>>)
         IN  RemUint32(x, m, k - 1,
                       IF r[4] >= 128 \/ ~LessUint32(d, m) THEN SubUint32(d, m) ELSE d)

\* x % m for uint32 words, m not 0.
ModUint32(x, m) == RemUint32(x, m, 31, <<0, 0, 0, 0>>)

\* The bit position of the i-th hash function, (h1 + i*h2) % numBits, for
\* words i and numBits: a word.
BitPos(h, i, numBits) == ModUint32(AddUint32(h.h1, MulUint32(i, h.h2)), numBits)

\* The same position as a number, for a number i below 2^31 and a number
\* numBits below 2^23.
BitPosSmall(h, i, numBits) ==
    ModSmall(AddUint32(h.h1, IF i < 256 THEN MulByte(i, h.h2)
                                        ELSE MulUint32(PutUint32(i), h.h2)), numBits)

\* pos/8 for the word pos: the index of the byte that holds the bit.
ByteOf(pos) == (pos[1] \div 8) + 32 * pos[2] + 8192 * pos[3] + 2097152 * pos[4]

RECURSIVE Zeros(_)
\* make([]byte, n): a sequence of n zero bytes.
Zeros(n) == IF n = 0 THEN <<>> ELSE Append(Zeros(n - 1), 0)

\* NewBloomFilter(expectedItems, 0.01): m = ceil(-n ln p / (ln 2)^2) bits,
\* at least 8, and k = ceil((m / n) ln 2) = 7 hash functions.  With p = 0.01
\* the factor is 9.585058377...; the integer form agrees with the floating
\* point one for every n below 224.  numBits and numHash are uint32 words.
NewBloomFilter(expectedItems) ==
    LET n       == IF expectedItems < 1 THEN 1 ELSE expectedItems
        m       == (n * 9585059 + 999999) \div 1000000
        numBits == IF m < 8 THEN 8 ELSE m
    IN  [bits |-> Zeros((numBits + 7) \div 8),
         numBits |-> PutUint32(numBits), numHash |-> PutUint32(7)]

\* bits[n] & (1 << b) != 0 for n = pos/8 and b = pos%8, n a byte bits has.
BitSet(bits, n, b) == (bits[n + 1] \div Pow2(b)) % 2 = 1

\* An Add that sets no bit.
SetBitNever(bits, n, b) == bits

\* bits[n] |= 1 << b for n = pos/8 and b = pos%8, n a byte bits has.
SetBit(bits, n, b) == IF BitSet(bits, n, b) THEN bits ELSE [bits EXCEPT ![n + 1] = @ + Pow2(b)]

\* The loops of Add and MayContain are written twice: on numbers for a
\* filter whose numBits is below 2^23 and whose numHash is below 2^31, as
\* the filters of NewBloomFilter are, and on uint32 words for any other
\* filter a file can hold.
IsSmallFilter(bf) == bf.numBits[4] = 0 /\ bf.numBits[3] < 128 /\ bf.numHash[4] < 128

\* One round of the loop of Add, round i, on the outcome r of the rounds
\* before it: the filter, and whether the loop panicked, with the bits it
\* had set until then.  A round panics on the remainder by a numBits of 0
\* (integer divide by zero) and on a bit past the end of bits (index out of
\* range).
BloomAddRound(r, h, i, numBits) ==
    IF r.panic THEN r
    ELSE IF numBits = 0 THEN [panic |-> TRUE, bf |-> r.bf]
    ELSE LET pos == BitPosSmall(h, i, numBits)
         IN  IF pos \div 8 >= Len(r.bf.bits) THEN [panic |-> TRUE, bf |-> r.bf]
             ELSE [panic |-> FALSE,
                   bf |-> [r.bf EXCEPT !.bits = SetBit(r.bf.bits, pos \div 8, pos % 8)]]

RECURSIVE BloomAddSmall(_, _, _, _, _)
\* The rounds lo, lo + 1, ... below hi of the loop of Add in that order, for
\* the number numBits of a small filter.  The rounds are taken as two
\* halves, the first before the second, so that a loop of many rounds
\* nests only a few calls.
BloomAddSmall(r, h, lo, hi, numBits) ==
    IF r.panic \/ hi <= lo THEN r
    ELSE IF hi = lo + 1 THEN BloomAddRound(r, h, lo, numBits)
    ELSE BloomAddSmall(BloomAddSmall(r, h, lo, lo + ((hi - lo) \div 2), numBits),
                       h, lo + ((hi - lo) \div 2), hi, numBits)

RECURSIVE BloomAddFrom(_, _, _)
\* The same loop from round i on, a uint32 word.
BloomAddFrom(bf, h, i) ==
    IF ~LessUint32(i, bf.numHash) THEN [panic |-> FALSE, bf |-> bf]
    ELSE IF bf.numBits = <<0, 0, 0, 0>> THEN [panic |-> TRUE, bf |-> bf]
    ELSE LET pos == BitPos(h, i, bf.numBits)
         IN  IF ByteOf(pos) >= Len(bf.bits) THEN [panic |-> TRUE, bf |-> bf]
             ELSE BloomAddFrom([bf EXCEPT !.bits = SetBit(bf.bits, ByteOf(pos), pos[1] % 8)],
                               h, AddUint32(i, <<1, 0, 0, 0>>))

\* BloomFilter.Add
BloomAdd(bf, key) ==
    IF IsSmallFilter(bf)
    THEN BloomAddSmall([panic |-> FALSE, bf |-> bf], hash(key), 0, Uint32(bf.numHash),
                       Uint32(bf.numBits))
    ELSE BloomAddFrom(bf, hash(key), <<0, 0, 0, 0>>)

MayContains == [panic |-> FALSE, may |-> TRUE]

ContainsNot == [panic |-> FALSE, may |-> FALSE]

MayContainPanic == [panic |-> TRUE, may |-> FALSE]

\* One round of the loop of MayContain, round i: MayContains when the bit
\* is set and the loop goes on, what the loop returns otherwise.
MayContainRound(bits, h, i, numBits) ==
    IF numBits = 0 THEN MayContainPanic
    ELSE LET pos == BitPosSmall(h, i, numBits)
         IN  IF pos \div 8 >= Len(bits) THEN MayContainPanic
             ELSE IF ~BitSet(bits, pos \div 8, pos % 8) THEN ContainsNot
             ELSE MayContains

RECURSIVE MayContainSmall(_, _, _, _, _)
\* The rounds lo, lo + 1, ... below hi of the loop of MayContain in that
\* order, for the number numBits of a small filter: what the loop returns
\* (may), or that it panicked.  The rounds are taken as two halves, the
\* second only when every round of the first found its bit.
MayContainSmall(bits, h, lo, hi, numBits) ==
    IF hi <= lo THEN MayContains
    ELSE IF hi = lo + 1 THEN MayContainRound(bits, h, lo, numBits)
    ELSE LET first == MayContainSmall(bits, h, lo, lo + ((hi - lo) \div 2), numBits)
         IN  IF first # MayContains THEN first
             ELSE MayContainSmall(bits, h, lo + ((hi - lo) \div 2), hi, numBits)

RECURSIVE MayContainFrom(_, _, _)
\* The same loop from round i on, a uint32 word.
MayContainFrom(bf, h, i) ==
    IF ~LessUint32(i, bf.numHash) THEN MayContains
    ELSE IF bf.numBits = <<0, 0, 0, 0>> THEN MayContainPanic
    ELSE LET pos == BitPos(h, i, bf.numBits)
         IN  IF ByteOf(pos) >= Len(bf.bits) THEN MayContainPanic
             ELSE IF ~BitSet(bf.bits, ByteOf(pos), pos[1] % 8) THEN ContainsNot
             ELSE MayContainFrom(bf, h, AddUint32(i, <<1, 0, 0, 0>>))

\* BloomFilter.MayContain
MayContain(bf, key) ==
    IF IsSmallFilter(bf)
    THEN MayContainSmall(bf.bits, hash(key), 0, Uint32(bf.numHash), Uint32(bf.numBits))
    ELSE MayContainFrom(bf, hash(key), <<0, 0, 0, 0>>)

\* A Serialize that writes numHash before numBits.
SerializeSwapped(bf) == bf.numHash \o bf.numBits \o bf.bits

\* BloomFilter.Serialize: numBits, numHash, bits.
Serialize(bf) == bf.numBits \o bf.numHash \o bf.bits

\* DeserializeBloom: numBits and numHash are the two words at the head of
\* data, whatever they hold; fewer than 8 bytes give the default filter.
DeserializeBloom(data) ==
    IF Len(data) < 8 THEN NewBloomFilter(1)
    ELSE [bits |-> SubSeq(data, 9, Len(data)),
          numBits |-> SubSeq(data, 1, 4),
          numHash |-> SubSeq(data, 5, 8)]

(***************************************************************************)
(* sstable.go: the file format and WriteSSTable.                           *)
(***************************************************************************)
\* sstMagic 0x4C534D54, little-endian.
sstMagic == <<84, 77, 83, 76>>

footerSize == 28

SSTableEntry(key, value, tombstone) == [Key |-> key, Value |-> value, Tombstone |-> tombstone]

\* binary.LittleEndian.PutUint64 of an offset (the model's offsets are small).
PutUint64(n) == PutUint32(n) \o <<0, 0, 0, 0>>

\* A data entry whose tombstone byte is never set.
DataEntryWithoutTombstone(e) ==
    PutUint32(Len(e.Key)) \o e.Key \o PutUint32(Len(e.Value.b)) \o e.Value.b \o <<0>>

\* One data entry: key length, key, value length, value, tombstone byte.
DataEntry(e) ==
    PutUint32(Len(e.Key)) \o e.Key \o PutUint32(Len(e.Value.b)) \o e.Value.b
        \o <<IF e.Tombstone THEN 1 ELSE 0>>

RECURSIVE DataOffset(_, _)
\* The offset of the i-th data entry (1-based): the sizes of those before it.
DataOffset(entries, i) ==
    IF i = 1 THEN 0 ELSE DataOffset(entries, i - 1) + Len(DataEntry(entries[i - 1]))

\* One index entry: key length, key, offset.
IndexEntry(key, offset) == PutUint32(Len(key)) \o key \o PutUint64(offset)

\* A writer that adds no key to the filter.
BloomOfNothing(bf, entries, i) == bf

RECURSIVE BloomOf(_, _, _)
\* The loop of WriteSSTable that adds the keys of the entries from the i-th
\* on to the filter bf.  No Add panics here: bf is NewBloomFilter's, whose
\* bits hold numBits bits.
BloomOf(bf, entries, i) ==
    IF i > Len(entries) THEN bf ELSE BloomOf(BloomAdd(bf, entries[i].Key).bf, entries, i + 1)

RECURSIVE Concat(_)
Concat(chunks) == IF chunks = <<>> THEN <<>> ELSE Head(chunks) \o Concat(Tail(chunks))

\* The byte chunks WriteSSTable hands to f.Write, in order: the data entries,
\* the index entries, the bloom filter, the footer.
SSTableWrites(entries) ==
    LET n           == Len(entries)
        data        == [i \in 1..n |-> DataEntry(entries[i])]
        index       == [i \in 1..n |-> IndexEntry(entries[i].Key, DataOffset(entries, i))]
        indexOffset == DataOffset(entries, n + 1)
        bloomBytes  == Serialize(BloomOf(NewBloomFilter(n), entries, 1))
        bloomOffset == indexOffset + Len(Concat(index))
        footer      == PutUint64(indexOffset) \o PutUint32(n) \o PutUint64(bloomOffset)
                           \o PutUint32(Len(bloomBytes)) \o sstMagic
    IN  data \o index \o <<bloomBytes, footer>>

\* The file a completed WriteSSTable leaves.
WriteSSTable(entries) == File(Concat(SSTableWrites(entries)))

(***************************************************************************)
(* sstable_reader.go                                                       *)
(***************************************************************************)
\* A 64-bit field of the file is eight bytes, least significant first.  It
\* is small when it is below 2^31 (its number is then Uint32 of its low
\* word), and negative as an int64 when the top bit of its last byte is set.
IsSmall64(x) == x[4] < 128 /\ x[5] = 0 /\ x[6] = 0 /\ x[7] = 0 /\ x[8] = 0

RECURSIVE Sub64(_, _, _, _, _)
\* a - b on two 64-bit fields from byte i on, with the borrow of the bytes
\* below: the int64 subtraction, which wraps.
Sub64(a, b, i, borrow, acc) ==
    IF i > 8 \/ Len(acc) # i - 1 THEN acc
    ELSE Sub64(a, b, i + 1, IF a[i] - b[i] - borrow < 0 THEN 1 ELSE 0,
               Append(acc, (a[i] - b[i] - borrow + 256) % 256))

\* make([]byte, n) for the int64 n: the runtime panics for a negative
\* length and for one above maxAlloc, 2^48 bytes; the machine is taken to
\* have the memory for any other.
MakeSlicePanics(n) ==
    \/ n[8] # 0
    \/ n[7] > 1
    \/ (n[7] = 1 /\ \E i \in 1..6 : n[i] # 0)

\* Whether f.ReadAt(buf, off) fails on a file of size bytes, n being
\* len(buf): for a negative offset, and when the file ends before the buffer
\* is full (io.EOF).  A read of no bytes succeeds at any other offset.
ReadAtFails(size, off, n) ==
    \/ off[8] >= 128
    \/ /\ n # <<0, 0, 0, 0, 0, 0, 0, 0>>
       /\ \/ ~IsSmall64(n)
          \/ ~IsSmall64(off)
          \/ Uint32(off) > size - Uint32(n)

\* The bytes a successful f.ReadAt(buf, off) puts into buf.
ReadAt(f, off, n) ==
    IF n = <<0, 0, 0, 0, 0, 0, 0, 0>> THEN <<>>
    ELSE Slice(f, Uint32(off), Uint32(off) + Uint32(n))

sstPath(level, seq) == [level |-> level, seq |-> seq]

NoReader == [path |-> sstPath(0, 0), index |-> <<>>, bloom |-> NewBloomFilter(1), file |-> NoFile]

IndexPanic == [panic |-> TRUE, index |-> <<>>]

RECURSIVE DecodeIndex(_, _, _, _)
\* The index loop of OpenSSTable: count entries from position pos (0-based).
\* Each of its three slice expressions panics when it reaches past
\* len(indexData).  The Offset of an entry is the 64-bit field as the file
\* holds it.
DecodeIndex(indexData, pos, count, acc) ==
    IF count = 0 THEN [panic |-> FALSE, index |-> acc]
    ELSE IF pos + 4 > Len(indexData) THEN IndexPanic
    ELSE IF indexData[pos + 4] >= 128 THEN IndexPanic
    ELSE IF Uint32(Slice(indexData, pos, pos + 4)) > Len(indexData) - pos - 12
    THEN IndexPanic
    ELSE LET keyLen == Uint32(Slice(indexData, pos, pos + 4))
             key    == Slice(indexData, pos + 4, pos + 4 + keyLen)
             offset == Slice(indexData, pos + 4 + keyLen, pos + 12 + keyLen)
         IN  DecodeIndex(indexData, pos + 12 + keyLen, count - 1,
                         Append(acc, [Key |-> key, Offset |-> offset]))

\* The reader OpenSSTable returns once the index is decoded.
OpenedSSTable(path, file, index, bloom) ==
    IF index.panic THEN [ok |-> FALSE, panic |-> TRUE, reader |-> NoReader]
    ELSE [ok |-> TRUE, panic |-> FALSE,
          reader |-> [path |-> path, index |-> index.index, bloom |-> bloom, file |-> file]]

\* OpenSSTable(path), for the file that path names: the reader; an error
\* for a file that is missing, shorter than the footer or without the magic
\* number, and when the read of the bloom filter or of the index fails; a
\* panic when the footer's index offset lies behind its bloom offset
\* (makeslice) and when the index ends before indexCount entries are decoded
\* (an entry takes 12 bytes or more: the loop does not get through a count
\* of 2^31 or more, nor through one of the size of the file).
OpenSSTable(path, file) ==
    LET f    == file.bytes
        size == Len(f)
        err  == [ok |-> FALSE, panic |-> FALSE, reader |-> NoReader]
    IN  IF ~file.exists \/ size < footerSize THEN err
        ELSE
          LET footer      == Slice(f, size - footerSize, size)
              indexOffset == Slice(footer, 0, 8)
              indexCount  == Slice(footer, 8, 12)
              bloomOffset == Slice(footer, 12, 20)
              bloomSize   == Slice(footer, 20, 24) \o <<0, 0, 0, 0>>
              indexSize   == Sub64(Slice(footer, 12, 20), Slice(footer, 0, 8), 1, 0, <<>>)
          IN  IF Slice(footer, 24, 28) # sstMagic THEN err
              ELSE IF ReadAtFails(size, bloomOffset, bloomSize) THEN err
              ELSE IF MakeSlicePanics(indexSize)
              THEN [ok |-> FALSE, panic |-> TRUE, reader |-> NoReader]
              ELSE IF ReadAtFails(size, indexOffset, indexSize) THEN err
              ELSE OpenedSSTable(path, file,
                                 DecodeIndex(ReadAt(f, indexOffset, indexSize), 0,
                                             IF indexCount[4] >= 128 THEN size
                                             ELSE Uint32(indexCount),
                                             <<>>),
                                 DeserializeBloom(ReadAt(f, bloomOffset, bloomSize)))

NotFoundEntry == [value |-> Nil, tombstone |-> FALSE, found |-> FALSE, panic |-> FALSE]

EntryPanic == [value |-> Nil, tombstone |-> FALSE, found |-> FALSE, panic |-> TRUE]

\* readEntry: the value and the tombstone byte of the data entry at offset.
\* offset is the uint64 as its eight bytes, little-endian, the way the
\* index holds it (PutUint64 of a number).  A read that fails (a negative
\* offset, a file that ends before the buffer is full) is reported as not
\* found.  A value length of 2^32 - 1 makes make([]byte, valLen+1) an empty
\* buffer, which the read fills, and data[:valLen] panics.
readEntry(r, offset) ==
    LET f   == r.file.bytes
        off == Uint32(offset)
    IN  IF ReadAtFails(Len(f), offset, <<4, 0, 0, 0, 0, 0, 0, 0>>) THEN NotFoundEntry
        ELSE IF f[off + 4] >= 128 THEN NotFoundEntry
        ELSE IF Uint32(Slice(f, off, off + 4)) > Len(f) - off - 8 THEN NotFoundEntry
        ELSE
          LET valLenOff == off + 4 + Uint32(Slice(f, off, off + 4))
              valLen    == Slice(f, valLenOff, valLenOff + 4)
              valOff    == valLenOff + 4
          IN  IF valLen = <<255, 255, 255, 255>> THEN EntryPanic
              ELSE IF valLen[4] >= 128 THEN NotFoundEntry
              ELSE IF Uint32(valLen) + 1 > Len(f) - valOff THEN NotFoundEntry
              ELSE [value     |-> Bytes(Slice(f, valOff, valOff + Uint32(valLen))),
                    tombstone |-> f[valOff + Uint32(valLen) + 1] = 1,
                    found     |-> TRUE,
                    panic     |-> FALSE]

\* SSTableReader.Get: bloom filter, binary search of the index, readEntry.
\* A panic of MayContain or of readEntry is one of Get.
SSTableGet(r, key) ==
    LET m == MayContain(r.bloom, key)
    IN  IF m.panic THEN EntryPanic
        ELSE IF ~m.may THEN NotFoundEntry
        ELSE LET idx == SortSearch([i \in 1..Len(r.index) |-> r.index[i].Key], key, 0,
                                   Len(r.index))
             IN  IF idx >= Len(r.index) \/ r.index[idx + 1].Key # key THEN NotFoundEntry
                 ELSE readEntry(r, r.index[idx + 1].Offset)

\* The loop of ReadAll after readEntry returned e for the i-th index entry,
\* the entries before it being acc: e is appended, or skipped when its read
\* failed.
ReadAllWith(r, i, acc, e) ==
    IF e.found THEN Append(acc, SSTableEntry(r.index[i].Key, e.value, e.tombstone)) ELSE acc

RECURSIVE ReadAllFrom(_, _, _)
\* The loop of ReadAll from the i-th index entry on: the entries, or that
\* readEntry panicked.
ReadAllFrom(r, i, acc) ==
    IF i > Len(r.index) THEN [panic |-> FALSE, entries |-> acc]
    ELSE LET e == readEntry(r, r.index[i].Offset)
         IN  IF e.panic THEN [panic |-> TRUE, entries |-> <<>>]
             ELSE ReadAllFrom(r, i + 1, ReadAllWith(r, i, acc, e))

\* SSTableReader.ReadAll: an entry whose read fails is skipped.
ReadAll(r) == ReadAllFrom(r, 1, <<>>)

RECURSIVE ReadAllFromFailingStops(_, _, _, _)
\* A ReadAll that stops at the first entry whose read fails.
ReadAllFromFailingStops(r, i, acc, failed) ==
    IF i > Len(r.index) \/ i \in failed THEN [panic |-> FALSE, entries |-> acc]
    ELSE LET e == readEntry(r, r.index[i].Offset)
         IN  IF e.panic THEN [panic |-> TRUE, entries |-> <<>>]
             ELSE ReadAllFromFailingStops(r, i + 1, ReadAllWith(r, i, acc, e), failed)

RECURSIVE ReadAllFromFailing(_, _, _, _)
\* ReadAll when r.file.ReadAt returns an I/O error inside readEntry for the
\* entries at the index positions of failed: those entries are skipped.
ReadAllFromFailing(r, i, acc, failed) ==
    IF i > Len(r.index) THEN [panic |-> FALSE, entries |-> acc]
    ELSE IF i \in failed THEN ReadAllFromFailing(r, i + 1, acc, failed)
    ELSE LET e == readEntry(r, r.index[i].Offset)
         IN  IF e.panic THEN [panic |-> TRUE, entries |-> <<>>]
             ELSE ReadAllFromFailing(r, i + 1, ReadAllWith(r, i, acc, e), failed)

(***************************************************************************)
(* compaction.go                                                           *)
(***************************************************************************)
CompactionThreshold == 4

\* The smallest of a non-empty set of keys.
MinKey(S) == CHOOSE k \in S : \A o \in S : ~KeyLess(o, k)

RECURSIVE kWayMergeFrom(_, _, _)
\* One round of kWayMerge's loop; positions[i] is the 1-based cursor of set i.
kWayMergeFrom(sets, positions, result) ==
    LET live == {i \in 1..Len(sets) : positions[i] <= Len(sets[i])}
    IN  IF live = {} THEN result
        ELSE
          LET minKey    == MinKey({sets[i][positions[i]].Key : i \in live})
              atKey     == {i \in live : sets[i][positions[i]].Key = minKey}
              winnerIdx == CHOOSE i \in atKey : \A j \in atKey : i <= j
          IN  kWayMergeFrom(sets,
                            [i \in 1..Len(sets) |->
                                IF i \in atKey THEN positions[i] + 1 ELSE positions[i]],
                            Append(result, sets[winnerIdx][positions[winnerIdx]]))

RECURSIVE kWayMergeWinnerOnlyFrom(_, _, _)
\* A merge that advances only the set of the winner past the key.
kWayMergeWinnerOnlyFrom(sets, positions, result) ==
    LET live == {i \in 1..Len(sets) : positions[i] <= Len(sets[i])}
    IN  IF live = {} THEN result
        ELSE
          LET minKey    == MinKey({sets[i][positions[i]].Key : i \in live})
              atKey     == {i \in live : sets[i][positions[i]].Key = minKey}
              winnerIdx == CHOOSE i \in atKey : \A j \in atKey : i <= j
          IN  kWayMergeWinnerOnlyFrom(sets,
                                      [positions EXCEPT ![winnerIdx] = @ + 1],
                                      Append(result, sets[winnerIdx][positions[winnerIdx]]))

kWayMergeWinnerOnly(ss) == kWayMergeWinnerOnlyFrom(ss, [i \in 1..Len(ss) |-> 1], <<>>)

\* A merge in which the set with the highest index wins.
kWayMergeOldestWins(ss) ==
    kWayMergeFrom([i \in 1..Len(ss) |-> ss[Len(ss) + 1 - i]], [i \in 1..Len(ss) |-> 1], <<>>)

kWayMerge(ss) == kWayMergeFrom(ss, [i \in 1..Len(ss) |-> 1], <<>>)

RECURSIVE DropTombstones(_)
DropTombstones(es) ==
    IF es = <<>> THEN <<>>
    ELSE IF Head(es).Tombstone THEN DropTombstones(Tail(es))
    ELSE <<Head(es)>> \o DropTombstones(Tail(es))

\* Whether Compact panics: in the ReadAll of one of its readers.
CompactPanics(rs) == \E i \in 1..Len(rs) : ReadAll(rs[i]).panic

\* A Compact that writes the tombstones too.
CompactEntriesWithTombstones(rs) ==
    kWayMerge([i \in 1..Len(rs) |-> ReadAll(rs[i]).entries])

\* The entries Compact writes to its output when it does not panic: the
\* merge of the readers' entries (newest reader first) without the
\* tombstones.
CompactEntries(rs) ==
    DropTombstones(kWayMerge([i \in 1..Len(rs) |-> ReadAll(rs[i]).entries]))

\* Whether Compact panics when the read of the entry at index position ei
\* of the reader rs[ri] fails in ReadAll: in the read of another entry.
CompactPanicsSkipping(rs, ri, ei) ==
    \E i \in 1..Len(rs) : IF i = ri THEN ReadAllFromFailing(rs[i], 1, <<>>, {ei}).panic
                                    ELSE ReadAll(rs[i]).panic

\* The entries Compact writes when the read of the entry at index position
\* ei of the reader rs[ri] fails in ReadAll.
CompactEntriesSkipping(rs, ri, ei) ==
    DropTombstones(kWayMerge([i \in 1..Len(rs) |->
        IF i = ri THEN ReadAllFromFailing(rs[i], 1, <<>>, {ei}).entries
        ELSE ReadAll(rs[i]).entries]))

(***************************************************************************)
(* The directory: the file "wal" and the SSTable files, named by level and *)
(* sequence number ("%d-%06d.sst").                                        *)
(***************************************************************************)
NoSSTables == [p \in {} |-> NoFile]

EmptyDir == [wal |-> NoFile, sst |-> NoSSTables]

WriteFile(d, path, file) == [d EXCEPT !.sst = [p \in DOMAIN d.sst \cup {path} |->
                                                  IF p = path THEN file ELSE d.sst[p]]]

RemoveFiles(d, paths) == [d EXCEPT !.sst = [p \in DOMAIN d.sst \ paths |-> d.sst[p]]]

Range(s) == {s[i] : i \in 1..Len(s)}

\* The order of the file names "%d-%06d.sst": by level, then by sequence.
NameLess(p, q) == p.level < q.level \/ (p.level = q.level /\ p.seq < q.seq)

RECURSIVE SortNames(_)
SortNames(S) ==
    IF S = {} THEN <<>>
    ELSE LET first == CHOOSE p \in S : \A q \in S \ {p} : NameLess(p, q)
         IN  <<first>> \o SortNames(S \ {first})

\* os.ReadDir: the SSTable files of the directory, sorted by file name.
ReadDir(d) == SortNames(DOMAIN d.sst)

RECURSIVE InsertNewestFirst(_, _)
InsertNewestFirst(sorted, p) ==
    IF sorted = <<>> THEN <<p>>
    ELSE IF sorted[Len(sorted)].seq >= p.seq THEN Append(sorted, p)
    ELSE Append(InsertNewestFirst(SubSeq(sorted, 1, Len(sorted) - 1), p), sorted[Len(sorted)])

RECURSIVE SortNewestFirst(_)
\* sort.Slice by descending sequence number (an insertion sort for the short
\* slices of the model: equal sequence numbers keep the directory order).
SortNewestFirst(paths) ==
    IF paths = <<>> THEN <<>>
    ELSE InsertNewestFirst(SortNewestFirst(SubSeq(paths, 1, Len(paths) - 1)), paths[Len(paths)])

(***************************************************************************)
(* db_internal.go and db.go.  The engine in memory is db: whether a        *)
(* process has it open, its memtable, its readers (newest first),          *)
(* nextSeq, and whether db.wal is an open handle, which appends to the     *)
(* file "wal" of the directory (a flush that cannot reopen the log leaves  *)
(* the handle it closed).                                                  *)
(***************************************************************************)
ClosedDB == [open |-> FALSE, mem |-> NewMemtable(MemtableThreshold), sstables |-> <<>>,
             nextSeq |-> 1, wal |-> FALSE]

level0SSTables(d) == SelectSeq(ReadDir(d), LAMBDA p : p.level = 0)

allSSTables(d) == SortNewestFirst(ReadDir(d))

RECURSIVE MaxSeq(_, _)
MaxSeq(paths, n) ==
    IF paths = <<>> THEN n
    ELSE MaxSeq(Tail(paths), IF Head(paths).seq >= n THEN Head(paths).seq + 1 ELSE n)

RECURSIVE OpenAll(_, _, _)
\* Opens the files of paths in order and appends the readers to acc; stops
\* at the first file that OpenSSTable rejects or panics on.
OpenAll(d, paths, acc) ==
    IF paths = <<>> THEN [ok |-> TRUE, panic |-> FALSE, readers |-> acc]
    ELSE LET o == OpenSSTable(Head(paths), d.sst[Head(paths)])
         IN  IF ~o.ok THEN [ok |-> FALSE, panic |-> o.panic, readers |-> acc]
             ELSE OpenAll(d, Tail(paths), Append(acc, o.reader))

\* The result of loadSSTables once the files are opened: o is what OpenAll
\* returned.
loadedSSTables(db, d, o) ==
    [ok  |-> o.ok, panic |-> o.panic,
     db  |-> [db EXCEPT !.nextSeq = MaxSeq(ReadDir(d), db.nextSeq), !.sstables = o.readers],
     dir |-> d]

\* loadSSTables: advances nextSeq past every file, then opens the files
\* newest first, appending to db.sstables; an error leaves what it did.
loadSSTables(db, d) == loadedSSTables(db, d, OpenAll(d, allSSTables(d), db.sstables))

\* The entries flush hands to WriteSSTable.
FlushEntries(mem) ==
    [i \in 1..Len(mem.entries) |->
        SSTableEntry(mem.entries[i].key, mem.entries[i].value, mem.entries[i].tombstone)]

\* A compaction that leaves its inputs in the directory.
compactAllKeepingInputs(db, d, allPaths, readers) ==
    IF ~readers.ok THEN [ok |-> FALSE, panic |-> readers.panic, db |-> db, dir |-> d]
    ELSE IF CompactPanics(readers.readers)
    THEN [ok |-> FALSE, panic |-> TRUE, db |-> db, dir |-> d]
    ELSE loadSSTables([db EXCEPT !.nextSeq = db.nextSeq + 1, !.sstables = <<>>],
                      WriteFile(d, sstPath(1, db.nextSeq),
                                WriteSSTable(CompactEntries(readers.readers))))

\* maybeCompact from the point where the inputs are opened: merges them into
\* the level-1 output, removes the inputs, reloads.  A panic of OpenSSTable
\* or of Compact, which has written nothing yet, ends the process.
compactAll(db, d, allPaths, readers) ==
    IF ~readers.ok THEN [ok |-> FALSE, panic |-> readers.panic, db |-> db, dir |-> d]
    ELSE IF CompactPanics(readers.readers)
    THEN [ok |-> FALSE, panic |-> TRUE, db |-> db, dir |-> d]
    ELSE loadSSTables([db EXCEPT !.nextSeq = db.nextSeq + 1, !.sstables = <<>>],
                      RemoveFiles(WriteFile(d, sstPath(1, db.nextSeq),
                                            WriteSSTable(CompactEntries(readers.readers))),
                                  Range(allPaths)))

\* maybeCompact from the point where the inputs are opened, when the read
\* of the entry at index position ei of the reader ri fails inside Compact:
\* Compact returns nil, the inputs are removed, the directory is reloaded.
\* A rejected input ends maybeCompact before Compact, and a panic in the
\* read of another entry ends the process, as in compactAll.
compactAllSkipping(db, d, allPaths, readers, ri, ei) ==
    IF ~readers.ok THEN [ok |-> FALSE, panic |-> readers.panic, db |-> db, dir |-> d]
    ELSE IF CompactPanicsSkipping(readers.readers, ri, ei)
    THEN [ok |-> FALSE, panic |-> TRUE, db |-> db, dir |-> d]
    ELSE loadSSTables([db EXCEPT !.nextSeq = db.nextSeq + 1, !.sstables = <<>>],
                      RemoveFiles(WriteFile(d, sstPath(1, db.nextSeq),
                                            WriteSSTable(CompactEntriesSkipping(readers.readers,
                                                                                ri, ei))),
                                  Range(allPaths)))

\* A maybeCompact that waits for one more level-0 file.
maybeCompactLate(s) ==
    IF Len(level0SSTables(s.dir)) < CompactionThreshold + 1
    THEN [ok |-> TRUE, panic |-> FALSE, db |-> s.db, dir |-> s.dir]
    ELSE compactAll(s.db, s.dir, allSSTables(s.dir), OpenAll(s.dir, allSSTables(s.dir), <<>>))

\* maybeCompact on the engine s.db and the directory s.dir, without I/O
\* errors other than a rejected input.
maybeCompact(s) ==
    IF Len(level0SSTables(s.dir)) < CompactionThreshold
    THEN [ok |-> TRUE, panic |-> FALSE, db |-> s.db, dir |-> s.dir]
    ELSE compactAll(s.db, s.dir, allSSTables(s.dir), OpenAll(s.dir, allSSTables(s.dir), <<>>))

\* A flush that leaves the records in the WAL.
flushedToKeepingWAL(db, path, written) ==
    [db  |-> [db EXCEPT !.sstables = <<OpenSSTable(path, written.sst[path]).reader>>
                                       \o db.sstables,
                        !.nextSeq = db.nextSeq + 1,
                        !.mem = NewMemtable(MemtableThreshold)],
     dir |-> written]

\* flush after WriteSSTable: written is the directory with the new file at
\* path.  The file is opened, its reader is prepended, the memtable and
\* the WAL are reset.
flushedTo(db, path, written) ==
    [db  |-> [db EXCEPT !.sstables = <<OpenSSTable(path, written.sst[path]).reader>>
                                       \o db.sstables,
                        !.nextSeq = db.nextSeq + 1,
                        !.mem = NewMemtable(MemtableThreshold)],
     dir |-> [written EXCEPT !.wal = File(<<>>)]]

\* flush up to the call of maybeCompact.
flushBeforeCompact(db, d) ==
    flushedTo(db, sstPath(0, db.nextSeq),
              WriteFile(d, sstPath(0, db.nextSeq), WriteSSTable(FlushEntries(db.mem))))

\* flush, without I/O errors.
flush(db, d) == maybeCompact(flushBeforeCompact(db, d))

\* DB.Get once the memtable and the SSTables are asked: m is what the
\* memtable returned, hits what the SSTables that hold the key returned,
\* newest first.
DBGetFrom(m, hits) ==
    IF m.found
    THEN IF m.value.isnil THEN [val |-> Nil, err |-> "ErrKeyNotFound"]
         ELSE [val |-> m.value, err |-> "nil"]
    ELSE IF hits = <<>> THEN [val |-> Nil, err |-> "ErrKeyNotFound"]
    ELSE IF Head(hits).panic THEN [val |-> Nil, err |-> "panic"]
    ELSE IF Head(hits).tombstone THEN [val |-> Nil, err |-> "ErrKeyNotFound"]
    ELSE [val |-> Head(hits).value, err |-> "nil"]

\* DB.Get: the value and the error.  The loop over the SSTables ends at the
\* first whose Get finds the key or panics ("panic": the process ends).
DBGet(db, key) ==
    DBGetFrom(MemtableGet(db.mem, key),
              SelectSeq([i \in 1..Len(db.sstables) |-> SSTableGet(db.sstables[i], key)],
                        LAMBDA e : e.found \/ e.panic))

\* WAL.Append that succeeds: the record is at the end of the file.
AppendWAL(d, entry) == [d EXCEPT !.wal = File(d.wal.bytes \o Record(entry))]

\* The part of DB.Put and DB.Delete after the memtable is updated to m:
\* a full memtable is flushed.
applied(db, d, m) ==
    IF IsFull(m) THEN flush([db EXCEPT !.mem = m], d)
    ELSE [ok |-> TRUE, panic |-> FALSE, db |-> [db EXCEPT !.mem = m], dir |-> d]

\* The part of DB.Put and DB.Delete after the WAL append returned success.
ApplyPut(db, d, key, value) == applied(db, d, MemtablePut(db.mem, key, value))

ApplyDelete(db, d, key) == applied(db, d, MemtableDelete(db.mem, key))

\* A Put that updates the memtable before it looks at the result of the append.
DBPutEager(db, d, key, value, appendOK) ==
    [ApplyPut(db, d, key, value) EXCEPT !.ok = @ /\ appendOK]

\* DB.Put: appendOK says whether wal.Append returned success, and d is the
\* directory as the append left it.
DBPut(db, d, key, value, appendOK) ==
    IF ~appendOK THEN [ok |-> FALSE, panic |-> FALSE, db |-> db, dir |-> d]
    ELSE ApplyPut(db, d, key, value)

DBDelete(db, d, key, appendOK) ==
    IF ~appendOK THEN [ok |-> FALSE, panic |-> FALSE, db |-> db, dir |-> d]
    ELSE ApplyDelete(db, d, key)

RECURSIVE ReplayInto(_, _)
\* Open's loop over the replayed entries.
ReplayInto(mem, entries) ==
    IF entries = <<>> THEN mem
    ELSE ReplayInto(CASE Head(entries).Op = OpPut ->
                             MemtablePut(mem, Head(entries).Key, Head(entries).Value)
                      [] Head(entries).Op = OpDelete -> MemtableDelete(mem, Head(entries).Key)
                      [] OTHER -> mem,
                    Tail(entries))

\* Open after loadSSTables returned l and Replay returned r.
opened(d, l, r) ==
    IF l.panic THEN [err |-> "panic", db |-> ClosedDB, dir |-> d]
    ELSE IF ~l.ok THEN [err |-> "load", db |-> ClosedDB, dir |-> d]
    ELSE IF r.panic THEN [err |-> "panic", db |-> ClosedDB, dir |-> d]
    ELSE [err |-> "nil",
          db  |-> [l.db EXCEPT !.open = TRUE, !.wal = TRUE,
                               !.mem = ReplayInto(l.db.mem, r.entries)],
          dir |-> [d EXCEPT !.wal = File(d.wal.bytes)]]

\* Open: the error ("nil", "load" for a rejected SSTable, "panic"), the
\* engine and the directory, in which OpenWAL has created the log.
DBOpen(d) == opened(d, loadSSTables(ClosedDB, d), Replay(d.wal))

\* Close after its flush returned f: the error of a failed flush is returned
\* before anything is closed; otherwise the readers are closed and Close
\* returns what db.wal.Close() returns, an error for a handle that is
\* closed already.
closed(f) == IF f.ok THEN [f EXCEPT !.db = ClosedDB, !.ok = f.db.wal] ELSE f

\* A Close that does not flush.
DBCloseWithoutFlush(db, d) == closed([ok |-> TRUE, panic |-> FALSE, db |-> db, dir |-> d])

\* DB.Close, without I/O errors other than a rejected compaction input.
DBClose(db, d) ==
    closed(IF Len(db.mem.entries) > 0 THEN flush(db, d)
           ELSE [ok |-> TRUE, panic |-> FALSE, db |-> db, dir |-> d])

(***************************************************************************)
(* Where a crash can cut a flush.  Each element is the directory the crash *)
(* leaves and the place "at" of the crash; db and d are the engine and the *)
(* directory when flush is called.                                         *)
(***************************************************************************)
\* The files a crash can leave when it cuts WriteSSTable, whose calls of
\* f.Write are w, before the last of them returned (os.Create has made
\* the file; no call leaves it empty).
WritePrefixes(w) == {File(Concat(SubSeq(w, 1, j))) : j \in 0..(Len(w) - 1)}

PartialSSTables(entries) == WritePrefixes(SSTableWrites(entries))

\* Crashes inside maybeCompact once the inputs allPaths are merged into
\* entries for the file output.
CompactCrashesAt(d, allPaths, entries, output) ==
    {[at |-> "compact-write", dir |-> WriteFile(d, output, f)] : f \in PartialSSTables(entries)}
    \cup
    {[at |-> "compact-remove",
      dir |-> RemoveFiles(WriteFile(d, output, WriteSSTable(entries)),
                          Range(SubSeq(allPaths, 1, r)))] :
          r \in 0..Len(allPaths)}

\* Crashes inside maybeCompact once OpenAll returned inputs for the files of
\* the directory: after a rejected input maybeCompact returns before it
\* writes or removes a file, and a crash leaves the directory as it found it.
CompactCrashesOf(s, inputs) ==
    IF ~inputs.ok \/ CompactPanics(inputs.readers) THEN {}
    ELSE CompactCrashesAt(s.dir, allSSTables(s.dir), CompactEntries(inputs.readers),
                          sstPath(1, s.db.nextSeq))

\* Crashes inside maybeCompact on the engine s.db and the directory s.dir.
CompactCrashes(s) ==
    IF Len(level0SSTables(s.dir)) < CompactionThreshold THEN {}
    ELSE CompactCrashesOf(s, OpenAll(s.dir, allSSTables(s.dir), <<>>))

\* Crashes inside a flush that removes the WAL before it writes the SSTable.
FlushCrashesWALFirst(d, path, entries, f) ==
    {[at |-> "flush-wal-removed", dir |-> [WriteFile(d, path, p) EXCEPT !.wal = NoFile]] :
        p \in PartialSSTables(entries)}

\* Crashes inside flush of the memtable entries to path; f is the engine
\* and the directory when flush calls maybeCompact.
FlushCrashesAt(d, path, entries, f) ==
    {[at |-> "flush-write", dir |-> WriteFile(d, path, p)] : p \in PartialSSTables(entries)}
    \cup {[at |-> "flush-written", dir |-> [f.dir EXCEPT !.wal = d.wal]],
          [at |-> "flush-wal-removed", dir |-> [f.dir EXCEPT !.wal = NoFile]],
          [at |-> "flush-wal-reset", dir |-> f.dir]}
    \cup CompactCrashes(f)

\* Crashes inside flush, those inside its call of maybeCompact included.
FlushCrashes(db, d) ==
    FlushCrashesAt(d, sstPath(0, db.nextSeq), FlushEntries(db.mem), flushBeforeCompact(db, d))

(***************************************************************************)
(* The state.                                                              *)
(*   dir    the directory on disk                                          *)
(*   db     the engine in the memory of the process                        *)
(* and, to state the properties:                                           *)
(*   acked  per key, the result Get owes after the last acknowledged       *)
(*          Put or Delete on it                                            *)
(*   maybe  per key, the results of later Puts and Deletes on it that were *)
(*          not acknowledged (cut by a crash or failed) and may be durable *)
(*   left   how many more Puts and Deletes, crashes and I/O errors the     *)
(*          workload has                                                   *)
(*   last   the last step: its kind, key, error, the place of a crash,     *)
(*          whether it repeats the acknowledged step before it (same       *)
(*          operation, same key), for Open the step before it, and for an  *)
(*          operation on the memtable alone what the key held before it    *)
(*   saved  what Get returned per key before Close, or when the compaction *)
(*          cut by the last crash started                                  *)
(* and for the log file taken alone (SpecWAL):                             *)
(*   chunks    what was written to the end of the file, in order: records  *)
(*             of Append, torn and corrupted records, garbage              *)
(*   replayed  what the last Replay of the file returned, and of how many  *)
(*             chunks the file was made then                               *)
(* for the SSTable files and Compact taken alone (SpecTable):              *)
(*   sets      the entry lists given to WriteSSTable, newest first         *)
(*   readers   the readers OpenSSTable returned for the files written      *)
(*   result    what the last ReadAll, Get or Compact on them returned      *)
(* and for the bloom filter taken alone (SpecBloom):                       *)
(*   bf        the filter                                                  *)
(*   added     the keys given to Add                                       *)
(*   restored  the filter DeserializeBloom returned last, and from what    *)
(***************************************************************************)
VARIABLES dir, db, acked, maybe, left, last, saved, chunks, replayed,
          sets, readers, result, bf, added, restored

vars == <<dir, db, acked, maybe, left, last, saved, chunks, replayed,
          sets, readers, result, bf, added, restored>>

tableVars == <<sets, readers, result>>

bloomVars == <<bf, added, restored>>

NoResult == [op |-> "none", i |-> 0, key |-> <<>>, entry |-> NotFoundEntry,
             merged |-> <<>>, entries |-> <<>>]

NotRestored == [from |-> "none", data |-> <<>>, bf |-> NewBloomFilter(1)]

\* Nothing is written, read or compacted outside the engine.
NoTables ==
    /\ sets = <<>>
    /\ readers = <<>>
    /\ result = NoResult

\* No filter is in use outside the SSTable files.
NoBloom ==
    /\ bf = NewBloomFilter(1)
    /\ added = {}
    /\ restored = NotRestored

Keys == {<<97>>, <<98>>}

Values == {Nil, Bytes(<<>>), Bytes(<<120>>)}

NotFoundResult == [found |-> FALSE, value |-> <<>>]

\* What a caller sees of DB.Get: not found, or the bytes of the value.
ResultOf(g) == IF g.err = "nil" THEN [found |-> TRUE, value |-> g.val.b] ELSE NotFoundResult

View(d) == [k \in Keys |-> ResultOf(DBGet(d, k))]

NoView == [k \in Keys |-> NotFoundResult]

Ops == [op : {"put"}, key : Keys, value : Values] \cup [op : {"delete"}, key : Keys, value : {Nil}]

EntryOf(o) == WALEntry(IF o.op = "put" THEN OpPut ELSE OpDelete, o.key,
                       IF o.op = "put" THEN o.value ELSE Nil)

OwedBy(o) == IF o.op = "put" THEN [found |-> TRUE, value |-> o.value.b] ELSE NotFoundResult

\* DB.Put or DB.Delete.
DBWrite(e, d, o, appendOK) ==
    IF o.op = "put" THEN DBPut(e, d, o.key, o.value, appendOK)
    ELSE DBDelete(e, d, o.key, appendOK)

\* The memtable after the operation's update, before IsFull is asked.
MemAfter(e, o) ==
    IF o.op = "put" THEN MemtablePut(e.mem, o.key, o.value) ELSE MemtableDelete(e.mem, o.key)

\* How many bytes of a record are in the file when an append is cut or
\* fails: none, part of the header, all but the last byte, or the whole
\* record (then only the sync or the return is missing).
WrittenLengths(record) == {0, 3, Len(record) - 1, Len(record)}

\* The directories a cut or failed append of the record can leave.
CutAppends(d, record) ==
    {[d EXCEPT !.wal = File(d.wal.bytes \o SubSeq(record, 1, n))] : n \in WrittenLengths(record)}

NotReplayed == [entries |-> <<>>, panic |-> FALSE, of |-> -1]

Step(kind, key, err, at) == [kind |-> kind, key |-> key, err |-> err, at |-> at,
                             again |-> FALSE, after |-> "", afterAt |-> ""]

\* An empty directory, no engine open, and a workload of at most ops Puts
\* and Deletes, crashes crashes and ioerrs I/O errors.
InitWith(ops, crashes, ioerrs) ==
    /\ dir = EmptyDir
    /\ db = ClosedDB
    /\ acked = NoView
    /\ maybe = [k \in Keys |-> {}]
    /\ left = [ops |-> ops, crashes |-> crashes, ioerrs |-> ioerrs]
    /\ last = Step("init", <<>>, "nil", "")
    /\ saved = NoView
    /\ chunks = <<>>
    /\ replayed = NotReplayed
    /\ NoTables
    /\ NoBloom

\* The engine and the directory become those of the result r of a call.
Returns(r) ==
    /\ db' = r.db
    /\ dir' = r.dir

\* Open returns r.
Opens(r) ==
    /\ Returns(r)
    /\ last' = [kind |-> "open", key |-> <<>>, err |-> r.err, at |-> "",
                again |-> FALSE, after |-> last.kind, afterAt |-> last.at]

\* Open(dir) by a process that has no engine open.
Open ==
    /\ ~db.open
    /\ last.kind # "open"
    /\ Opens(DBOpen(dir))
    /\ UNCHANGED <<acked, maybe, left, saved>>

\* The result r of a call as the process sees it: a panic ends the process
\* and with it the engine in its memory.
Ended(r) == IF r.panic THEN [r EXCEPT !.db = ClosedDB] ELSE r

\* What Put, Delete or Close report for the result r of their call: nil,
\* the error of the flush, or for a Close that closed the engine the error
\* of db.wal.Close().
ErrorOf(r) ==
    IF r.ok THEN "nil"
    ELSE IF r.panic THEN "panic"
    ELSE IF r.db.open THEN "flush"
    ELSE "close"

\* The Put or Delete o returns r after its wal.Append succeeded.
Writes(o, r) ==
    /\ Returns(Ended(r))
    /\ acked' = IF r.ok THEN [acked EXCEPT ![o.key] = OwedBy(o)] ELSE acked
    /\ maybe' = [maybe EXCEPT ![o.key] = IF r.ok THEN {} ELSE @ \cup {OwedBy(o)}]
    /\ last' = [Step(o.op, o.key, ErrorOf(r), "") EXCEPT
                   !.again = r.ok /\ last.kind = o.op /\ last.key = o.key
                                  /\ last.err = "nil"]

\* db.Put or db.Delete whose wal.Append succeeds.  The call returns nil, or
\* the error of the flush it started.
Acknowledge(o) ==
    /\ db.open
    /\ db.wal
    /\ left.ops > 0
    /\ Writes(o, DBWrite(db, AppendWAL(dir, EntryOf(o)), o, TRUE))
    /\ left' = [left EXCEPT !.ops = @ - 1]
    /\ saved' = NoView

\* db.Put(key, value) without an I/O error.
Put(key, value) == Acknowledge([op |-> "put", key |-> key, value |-> value])

\* db.Delete(key) without an I/O error.
Delete(key) == Acknowledge([op |-> "delete", key |-> key, value |-> Nil])

\* db.Put or db.Delete whose wal.Append fails with an I/O error after n bytes
\* of the record reached the file; the call returns the error.
AppendFails(o) ==
    /\ db.open
    /\ db.wal
    /\ left.ops > 0
    /\ left.ioerrs > 0
    /\ \E d \in CutAppends(dir, Record(EntryOf(o))) : Returns(DBWrite(db, d, o, FALSE))
    /\ maybe' = [maybe EXCEPT ![o.key] = @ \cup {OwedBy(o)}]
    /\ left' = [left EXCEPT !.ops = @ - 1, !.ioerrs = @ - 1]
    /\ last' = Step(o.op, o.key, "io", "")
    /\ saved' = NoView
    /\ UNCHANGED acked

\* db.Close() without an I/O error.
Closes(r) ==
    /\ Returns(Ended(r))
    /\ last' = Step("close", <<>>, ErrorOf(r), "")

Close ==
    /\ db.open
    /\ Closes(DBClose(db, dir))
    /\ saved' = View(db)
    /\ UNCHANGED <<acked, maybe, left>>

Crashed(at, d) ==
    /\ left.crashes > 0
    /\ db' = ClosedDB
    /\ dir' = d
    /\ last' = Step("crash", <<>>, "crash", at)

\* The process dies between two operations.
CrashIdle ==
    /\ db.open
    /\ left.crashes > 0
    /\ Crashed("idle", dir)
    /\ left' = [left EXCEPT !.crashes = @ - 1]
    /\ saved' = NoView
    /\ UNCHANGED <<acked, maybe>>

\* The process dies inside wal.Append of a Put or Delete, with n bytes of
\* the record in the file.
CrashInAppend(o) ==
    /\ db.open
    /\ db.wal
    /\ left.ops > 0
    /\ left.crashes > 0
    /\ \E d \in CutAppends(dir, Record(EntryOf(o))) : Crashed("append", d)
    /\ maybe' = [maybe EXCEPT ![o.key] = @ \cup {OwedBy(o)}]
    /\ left' = [left EXCEPT !.ops = @ - 1, !.crashes = @ - 1]
    /\ saved' = NoView
    /\ UNCHANGED acked

\* The process dies inside flush of the engine e on the directory d.
CrashedInFlush(e, d) ==
    /\ \E c \in FlushCrashes(e, d) : Crashed(c.at, c.dir)
    /\ saved' = View(flushBeforeCompact(e, d).db)

\* The process dies inside the flush that a Put or Delete starts.
CrashInFlush(o) ==
    /\ db.open
    /\ db.wal
    /\ left.ops > 0
    /\ left.crashes > 0
    /\ IsFull(MemAfter(db, o))
    /\ CrashedInFlush([db EXCEPT !.mem = MemAfter(db, o)], AppendWAL(dir, EntryOf(o)))
    /\ maybe' = [maybe EXCEPT ![o.key] = @ \cup {OwedBy(o)}]
    /\ left' = [left EXCEPT !.ops = @ - 1, !.crashes = @ - 1]
    /\ UNCHANGED acked

\* The process dies inside the flush that Close starts.
CrashInClose ==
    /\ db.open
    /\ left.crashes > 0
    /\ Len(db.mem.entries) > 0
    /\ CrashedInFlush(db, dir)
    /\ left' = [left EXCEPT !.crashes = @ - 1]
    /\ UNCHANGED <<acked, maybe>>

\* The engine without crashes: every call returns, a wal.Append may fail.
Next ==
    /\ \/ Open
       \/ \E k \in Keys, v \in Values : Put(k, v)
       \/ \E k \in Keys : Delete(k)
       \/ \E o \in Ops : AppendFails(o)
       \/ Close
    /\ UNCHANGED <<chunks, replayed, tableVars, bloomVars>>

Init == InitWith(MaxOps, 0, MaxIOErrors)

Spec == Init /\ [][Next]_vars

\* The engine with crashes between operations and inside wal.Append.
NextCrash ==
    /\ \/ Open
       \/ \E k \in Keys, v \in Values : Put(k, v)
       \/ \E k \in Keys : Delete(k)
       \/ Close
       \/ CrashIdle
       \/ \E o \in Ops : CrashInAppend(o)
    /\ UNCHANGED <<chunks, replayed, tableVars, bloomVars>>

InitCrash == InitWith(MaxCrashOps, MaxCrashes, 0)

SpecCrash == InitCrash /\ [][NextCrash]_vars

\* The engine with crashes inside flush and compaction.
NextFlush ==
    /\ \/ Open
       \/ \E k \in Keys, v \in Values : Put(k, v)
       \/ \E k \in Keys : Delete(k)
       \/ Close
       \/ \E o \in Ops : CrashInFlush(o)
       \/ CrashInClose
    /\ UNCHANGED <<chunks, replayed, tableVars, bloomVars>>

InitFlush == InitWith(MaxFlushOps, MaxFlushCrashes, 0)

SpecFlush == InitFlush /\ [][NextFlush]_vars

(***************************************************************************)
(* Where an I/O error can meet a flush.  Each element is the place "at" of *)
(* the error, what the call returns ("flush" for the error, "nil" when the *)
(* code ignores it) and the engine and the directory that the call leaves; *)
(* the process goes on.                                                    *)
(***************************************************************************)
\* The files a failed WriteSSTable can leave: one that lacks some of the
\* writes, or the whole file when f.Sync fails.
FailedSSTables(entries) == PartialSSTables(entries) \cup {WriteSSTable(entries)}

\* The directory after Compact wrote the output of inputs and the os.Remove
\* loop ran over the files of s.dir, those of kept staying where the
\* removal failed.
compactedDir(s, inputs, kept) ==
    RemoveFiles(WriteFile(s.dir, sstPath(1, s.db.nextSeq),
                          WriteSSTable(CompactEntries(inputs.readers))),
                Range(allSSTables(s.dir)) \ kept)

\* The engines loadSSTables leaves when it fails on the engine e and the
\* directory c with an I/O error: os.ReadDir fails (e as it is), or the
\* open or a read of the j-th file fails, after nextSeq was advanced and
\* the readers of the files before it were appended.
LoadFailures(e, c) ==
    {e} \cup
    {[e EXCEPT !.nextSeq = MaxSeq(ReadDir(c), e.nextSeq),
               !.sstables = OpenAll(c, SubSeq(allSSTables(c), 1, j - 1), e.sstables).readers] :
        j \in 1..Len(allSSTables(c))}

\* A failed compaction that has removed its inputs.
CompactFailuresRemovingInputs(s) ==
    IF Len(level0SSTables(s.dir)) < CompactionThreshold THEN {}
    ELSE {[at |-> "compact-open", err |-> "flush", db |-> s.db,
           dir |-> RemoveFiles(s.dir, Range(allSSTables(s.dir)))]}

\* The outcomes of CompactFailures once OpenAll returned inputs for the
\* files of the directory, c being the directory a compaction without
\* errors makes and r what loadSSTables returns when one os.Remove failed.
CompactFailuresOf(s, inputs) ==
    IF ~inputs.ok \/ CompactPanics(inputs.readers)
    THEN {[at |-> "compact-open", err |-> "flush", db |-> s.db, dir |-> s.dir]}
    ELSE {[at |-> "compact-open", err |-> "flush", db |-> s.db, dir |-> s.dir]}
         \cup
         {[at |-> "compact-write", err |-> "flush", db |-> s.db,
           dir |-> WriteFile(s.dir, sstPath(1, s.db.nextSeq), file)] :
              file \in FailedSSTables(CompactEntries(inputs.readers))}
         \cup
         {[at |-> "compact-load", err |-> "flush", db |-> e, dir |-> compactedDir(s, inputs, {})] :
              e \in LoadFailures([s.db EXCEPT !.nextSeq = s.db.nextSeq + 1, !.sstables = <<>>],
                                 compactedDir(s, inputs, {}))}
         \cup
         {[at |-> "compact-remove", err |-> "nil",
           db |-> loadSSTables([s.db EXCEPT !.nextSeq = s.db.nextSeq + 1, !.sstables = <<>>],
                               compactedDir(s, inputs, {q})).db,
           dir |-> compactedDir(s, inputs, {q})] :
              q \in Range(allSSTables(s.dir))}

\* What os.ReadDir can return next to its error: the names it had read
\* before the error, in the order of the file names.  The directory hands
\* its names out in an order of its own, so that they are the names of any
\* part of it.
ReadDirFailures(d) == {SortNames(S) : S \in SUBSET DOMAIN d.sst}

\* maybeCompact when os.ReadDir returned the names of first inside
\* level0SSTables and those of second inside allSSTables: the files that
\* second names are merged and removed, the others stay.
maybeCompactListed(s, first, second) ==
    IF Len(SelectSeq(first, LAMBDA p : p.level = 0)) < CompactionThreshold
    THEN [ok |-> TRUE, panic |-> FALSE, db |-> s.db, dir |-> s.dir]
    ELSE compactAll(s.db, s.dir, SortNewestFirst(second),
                    OpenAll(s.dir, SortNewestFirst(second), <<>>))

\* The outcome of a maybeCompact that returned r after os.ReadDir failed at
\* the place at.
CompactListed(at, r) == [at |-> at, err |-> ErrorOf(r), db |-> Ended(r).db, dir |-> r.dir]

\* os.ReadDir fails inside maybeCompact.  level0SSTables and allSSTables
\* drop its error and go on with the names it returned: with too few
\* level-0 names maybeCompact returns nil without a compaction
\* ("compact-list-level0"); with some of the names in allSSTables it merges
\* and removes the files listed and leaves the others next to the output
\* ("compact-list-all").
CompactListFailures(s) ==
    {CompactListed("compact-list-level0", maybeCompactListed(s, l, ReadDir(s.dir))) :
        l \in ReadDirFailures(s.dir)}
    \cup
    {CompactListed("compact-list-all", maybeCompactListed(s, ReadDir(s.dir), l)) :
        l \in ReadDirFailures(s.dir)}

\* An I/O error meets maybeCompact on the engine s.db and the directory
\* s.dir.  os.ReadDir fails (CompactListFailures).  Or OpenSSTable fails
\* on an input or os.Create fails on the output ("compact-open": nothing is
\* changed), or Compact fails in WriteSSTable
\* and leaves the output file ("compact-write"): the code returns the error
\* before it removes a file or touches db.sstables or db.nextSeq.  Or
\* loadSSTables fails after the inputs were removed and db.nextSeq raised
\* ("compact-load"): the code returns its error with the readers it had
\* opened.  Or os.Remove fails on an input ("compact-remove"): the code
\* ignores the error, the input stays in the directory and is loaded again,
\* and the call returns nil.
CompactFailures(s) ==
    CompactListFailures(s)
    \cup
    (IF Len(level0SSTables(s.dir)) < CompactionThreshold THEN {}
     ELSE CompactFailuresOf(s, OpenAll(s.dir, allSSTables(s.dir), <<>>)))

\* A failed flush that has reset the memtable and the log before it wrote
\* the SSTable.
FlushFailuresAfterReset(e, d) ==
    {[at |-> "flush-create", err |-> "flush",
      db |-> [e EXCEPT !.mem = NewMemtable(e.mem.threshold)],
      dir |-> [d EXCEPT !.wal = File(<<>>)]]}

\* The outcome of a flush whose os.Remove of the log failed: the code
\* ignores the error, OpenWAL opens the log with its records, and r is what
\* maybeCompact returned.
FlushKeptWAL(r) ==
    [at |-> "flush-remove-wal", err |-> ErrorOf(r), db |-> Ended(r).db, dir |-> r.dir]

\* The outcomes of FlushFailures from the point where the SSTable is
\* written and opened; f is the engine and the directory of a flush without
\* errors when it calls maybeCompact.
FlushFailuresAfter(d, f) ==
    {[at |-> "flush-reset-wal", err |-> "flush",
      db |-> [f.db EXCEPT !.wal = FALSE], dir |-> [f.dir EXCEPT !.wal = NoFile]],
     FlushKeptWAL(maybeCompact([db |-> f.db, dir |-> [f.dir EXCEPT !.wal = d.wal]]))}
    \cup CompactFailures(f)

\* An I/O error meets flush.  os.Create fails ("flush-create"), or
\* WriteSSTable or OpenSSTable fails and leaves the file ("flush-write"):
\* flush returns the error before db is touched.  Or the reader is
\* prepended, db.nextSeq raised, the memtable reset and the log closed and
\* removed, and then OpenWAL fails ("flush-reset-wal": flush returns the
\* error and db.wal stays the closed handle), or os.Remove of the log had
\* failed ("flush-remove-wal": ignored, the call goes on with the records in
\* the log), or the error is one of maybeCompact.
FlushFailures(e, d) ==
    {[at |-> "flush-create", err |-> "flush", db |-> e, dir |-> d]}
    \cup
    {[at |-> "flush-write", err |-> "flush", db |-> e,
      dir |-> WriteFile(d, sstPath(0, e.nextSeq), file)] :
        file \in FailedSSTables(FlushEntries(e.mem))}
    \cup FlushFailuresAfter(d, flushBeforeCompact(e, d))

\* The Put, Delete or Close of the step returns with the outcome c of an
\* I/O error in its flush; f is the engine and the directory of a flush
\* without errors when it calls maybeCompact.  The engine stays open.
FlushFailed(kind, key, c, f) ==
    /\ db' = c.db
    /\ dir' = c.dir
    /\ last' = Step(kind, key, c.err, c.at)
    /\ saved' = View(f.db)

\* FlushFails for the engine e and the directory d that flush finds.
FlushFailsIn(o, e, d) ==
    \E c \in FlushFailures(e, d) :
        /\ FlushFailed(o.op, o.key, c, flushBeforeCompact(e, d))
        /\ acked' = IF c.err = "nil" THEN [acked EXCEPT ![o.key] = OwedBy(o)] ELSE acked
        /\ maybe' = [maybe EXCEPT ![o.key] = IF c.err = "nil" THEN {} ELSE @ \cup {OwedBy(o)}]

\* db.Put or db.Delete whose flush meets an I/O error: the record is in the
\* WAL and the entry in the memtable when flush starts, and the call
\* returns the error of the flush, or nil when the code ignores the error.
FlushFails(o) ==
    /\ db.open
    /\ db.wal
    /\ left.ops > 0
    /\ left.ioerrs > 0
    /\ IsFull(MemAfter(db, o))
    /\ FlushFailsIn(o, [db EXCEPT !.mem = MemAfter(db, o)], AppendWAL(dir, EntryOf(o)))
    /\ left' = [left EXCEPT !.ops = @ - 1, !.ioerrs = @ - 1]

\* db.Close whose flush meets an I/O error: Close returns the error of the
\* flush before it closes anything, or goes on when the code ignores the
\* error and closes the readers and the log after a flush that returned nil.
CloseFails ==
    /\ db.open
    /\ left.ioerrs > 0
    /\ Len(db.mem.entries) > 0
    /\ \E c \in FlushFailures(db, dir) :
          FlushFailed("close", <<>>, IF c.err = "nil" THEN [c EXCEPT !.db = ClosedDB] ELSE c,
                      flushBeforeCompact(db, dir))
    /\ left' = [left EXCEPT !.ioerrs = @ - 1]
    /\ UNCHANGED <<acked, maybe>>

\* db.Close whose db.wal.Close() returns an I/O error: the flush of a
\* non-empty memtable has returned nil and the readers are closed when the
\* log is closed, and Close returns the error of the log.  The handle is
\* released all the same, and the process has no engine any more.
CloseWALFails ==
    /\ db.open
    /\ db.wal
    /\ left.ioerrs > 0
    /\ DBClose(db, dir).ok
    /\ Returns([DBClose(db, dir) EXCEPT !.ok = FALSE])
    /\ last' = Step("close", <<>>, "close", "close-wal")
    /\ saved' = View(db)
    /\ left' = [left EXCEPT !.ioerrs = @ - 1]
    /\ UNCHANGED <<acked, maybe>>

\* db.Put or db.Delete on an engine whose db.wal is the handle a flush
\* closed: wal.Append fails in its write and the call returns the error.
AppendRefused(o) ==
    /\ db.open
    /\ ~db.wal
    /\ left.ops > 0
    /\ Returns(DBWrite(db, dir, o, FALSE))
    /\ maybe' = [maybe EXCEPT ![o.key] = @ \cup {OwedBy(o)}]
    /\ left' = [left EXCEPT !.ops = @ - 1]
    /\ last' = Step(o.op, o.key, "io", "")
    /\ saved' = NoView
    /\ UNCHANGED acked

\* The value of the Puts of the workloads with failures and of the long
\* workloads: one byte, so that every Put fills the memtable and flushes,
\* and two Deletes fill it.
FlushingValue == Bytes(<<120>>)

\* The calls of the workloads with failures: a Put of either key, and the
\* Delete of the second key.
FailOps ==
    {p \in Ops : (p.op = "put" /\ p.value = FlushingValue) \/ (p.op = "delete" /\ p.key = <<98>>)}

\* The engine with calls that fail with an I/O error: in wal.Append, in
\* the flush or the compaction of a Put, a Delete or a Close, and in the
\* db.wal.Close() of a Close.
NextFail ==
    /\ \/ Open
       \/ \E k \in {o.key : o \in {p \in FailOps : p.op = "put"}} : Put(k, FlushingValue)
       \/ \E k \in {o.key : o \in {p \in FailOps : p.op = "delete"}} : Delete(k)
       \/ Close
       \/ \E o \in FailOps : AppendFails(o)
       \/ \E o \in FailOps : FlushFails(o)
       \/ CloseFails
       \/ CloseWALFails
       \/ \E o \in FailOps : AppendRefused(o)
    /\ UNCHANGED <<chunks, replayed, tableVars, bloomVars>>

InitFail == InitWith(MaxFailOps, 0, MaxFailures)

SpecFail == InitFail /\ [][NextFail]_vars

\* The same calls with two I/O errors in a behaviour, so that a flush fails
\* on a log in which a failed append has left bytes.
InitFailTwice == InitWith(MaxTwiceOps, 0, MaxTwiceFailures)

SpecFailTwice == InitFailTwice /\ [][NextFail]_vars

\* The calls of the long workloads with failures: the Put and the Delete
\* of the first key.
LongFailOps == {p \in Ops : p.key = <<97>> /\ (p.op = "put" => p.value = FlushingValue)}

\* The engine with the same failures over workloads long enough for a
\* failing compaction that has a level-1 input.
NextFailLong ==
    /\ \/ Open
       \/ \E k \in {o.key : o \in {p \in LongFailOps : p.op = "put"}} : Put(k, FlushingValue)
       \/ \E k \in {o.key : o \in {p \in LongFailOps : p.op = "delete"}} : Delete(k)
       \/ Close
       \/ \E o \in LongFailOps : AppendFails(o)
       \/ \E o \in LongFailOps : FlushFails(o)
       \/ CloseFails
       \/ CloseWALFails
       \/ \E o \in LongFailOps : AppendRefused(o)
    /\ UNCHANGED <<chunks, replayed, tableVars, bloomVars>>

InitFailLong == InitWith(MaxFailLongOps, 0, MaxFailures)

SpecFailLong == InitFailLong /\ [][NextFailLong]_vars

\* The engine without crashes and I/O errors, over workloads long enough
\* for a compaction that has a level-1 input.
NextLong ==
    /\ \/ Open
       \/ \E k \in Keys : Put(k, FlushingValue)
       \/ \E k \in Keys : Delete(k)
       \/ Close
    /\ UNCHANGED <<chunks, replayed, tableVars, bloomVars>>

InitLong == InitWith(MaxLongOps, 0, 0)

SpecLong == InitLong /\ [][NextLong]_vars

(***************************************************************************)
(* The engine with a compaction in which the read of one data entry fails  *)
(* with an I/O error.                                                      *)
(***************************************************************************)
\* A second value, so that the files hold different values of a key.
OtherValue == Bytes(<<121>>)

\* The Put, Delete or Close of the step returns r after the read of the
\* entry at index position ei of the input ri failed in the compaction of
\* its flush.  result keeps which entry was skipped and what Compact wrote.
CompactSkipped(kind, key, r, inputs, ri, ei) ==
    /\ Returns(Ended(r))
    /\ last' = Step(kind, key, ErrorOf(r), "compact-skip")
    /\ result' = [NoResult EXCEPT
                     !.op = "Compact", !.i = ri,
                     !.key = inputs.readers[ri].index[ei].Key,
                     !.entries = CompactEntriesSkipping(inputs.readers, ri, ei)]

\* The flush of the step has written the fourth level-0 file: s is the
\* engine and the directory when flush calls maybeCompact, inputs the
\* readers maybeCompact opened, newest first.  In Compact the read of one
\* entry fails, and maybeCompact and flush return nil; a Close then closes
\* the readers and the log.  sets keeps what the inputs held.
CompactSkipsIn(kind, key, s, inputs) ==
    /\ Len(level0SSTables(s.dir)) >= CompactionThreshold
    /\ inputs.ok
    /\ \E ri \in 1..Len(inputs.readers) :
          \E ei \in 1..Len(inputs.readers[ri].index) :
             IF kind = "close"
             THEN CompactSkipped(kind, key,
                                 closed(compactAllSkipping(s.db, s.dir, allSSTables(s.dir),
                                                           inputs, ri, ei)),
                                 inputs, ri, ei)
             ELSE CompactSkipped(kind, key,
                                 compactAllSkipping(s.db, s.dir, allSSTables(s.dir),
                                                    inputs, ri, ei),
                                 inputs, ri, ei)
    /\ sets' = [i \in 1..Len(inputs.readers) |-> ReadAll(inputs.readers[i]).entries]
    /\ saved' = View(s.db)
    /\ UNCHANGED readers

CompactSkipsAfter(kind, key, s) ==
    CompactSkipsIn(kind, key, s, OpenAll(s.dir, allSSTables(s.dir), <<>>))

\* db.Put or db.Delete whose flush starts a compaction in which the read of
\* one entry fails.  The call returns nil, unless the compaction panics.
CompactSkips(o) ==
    /\ db.open
    /\ db.wal
    /\ left.ops > 0
    /\ left.ioerrs > 0
    /\ IsFull(MemAfter(db, o))
    /\ CompactSkipsAfter(o.op, o.key,
                         flushBeforeCompact([db EXCEPT !.mem = MemAfter(db, o)],
                                            AppendWAL(dir, EntryOf(o))))
    /\ acked' = IF last'.err = "nil" THEN [acked EXCEPT ![o.key] = OwedBy(o)] ELSE acked
    /\ maybe' = [maybe EXCEPT ![o.key] = IF last'.err = "nil" THEN {} ELSE @ \cup {OwedBy(o)}]
    /\ left' = [left EXCEPT !.ops = @ - 1, !.ioerrs = @ - 1]

\* db.Close whose flush of the memtable starts a compaction in which the
\* read of one entry fails.
CloseSkips ==
    /\ db.open
    /\ left.ioerrs > 0
    /\ Len(db.mem.entries) > 0
    /\ CompactSkipsAfter("close", <<>>, flushBeforeCompact(db, dir))
    /\ left' = [left EXCEPT !.ioerrs = @ - 1]
    /\ UNCHANGED <<acked, maybe>>

\* The calls of the workloads with a failed read: the Puts of two values of
\* the first key and of one value of the second, and the Deletes.
SkipOps ==
    [op : {"put"}, key : {<<97>>}, value : {FlushingValue, OtherValue}]
        \cup [op : {"put"}, key : {<<98>>}, value : {FlushingValue}]
        \cup [op : {"delete"}, key : Keys, value : {Nil}]

\* The engine with compactions in which a read fails.
NextSkip ==
    \/ /\ \/ Open
          \/ \E o \in {p \in SkipOps : p.op = "put"} : Put(o.key, o.value)
          \/ \E k \in Keys : Delete(k)
          \/ Close
       /\ UNCHANGED <<chunks, replayed, tableVars, bloomVars>>
    \/ /\ \/ \E o \in SkipOps : CompactSkips(o)
          \/ CloseSkips
       /\ UNCHANGED <<chunks, replayed, bloomVars>>

InitSkip == InitWith(MaxSkipOps, 0, MaxSkips)

SpecSkip == InitSkip /\ [][NextSkip]_vars

(***************************************************************************)
(* The log file taken alone: writers put chunks at its end, Replay reads   *)
(* it.                                                                     *)
(***************************************************************************)
\* A record as Append frames it, around any payload.
Framed(payload) == PutUint32(Len(payload)) \o ChecksumIEEE(payload) \o payload

\* The record with its last payload byte changed: the CRC no longer matches.
Corrupted(record) ==
    [record EXCEPT ![Len(record)] = (@ + 1) % 256]

\* Bytes that no Append wrote: a short run of 0xFF, a zero-filled block (a
\* header that claims an empty payload, whose CRC is 0), a header that
\* claims more than 64 MiB, and a framed payload of 9 bytes whose key
\* length is 2^32 - 9.
Garbage ==
    {<<255, 255, 255>>,
     <<0, 0, 0, 0, 0, 0, 0, 0>>,
     <<1, 0, 0, 4, 0, 0, 0, 0, 1>>,
     Framed(<<OpPut, 247, 255, 255, 255, 0, 0, 0, 0>>)}

Chunk(kind, entry, bytes) == [kind |-> kind, entry |-> entry, bytes |-> bytes]

WriteChunk(c) ==
    /\ Len(chunks) < MaxChunks
    /\ dir' = [dir EXCEPT !.wal = File(dir.wal.bytes \o c.bytes)]
    /\ chunks' = Append(chunks, c)
    /\ UNCHANGED <<db, acked, maybe, left, last, saved, replayed, tableVars, bloomVars>>

\* WAL.Append returns success.
WALAppend(o) == WriteChunk(Chunk("record", EntryOf(o), Record(EntryOf(o))))

\* The length of a value of 64 MiB.
LargeValueLength == 67108864

\* What Append writes for Put("a", value), where value is LargeValueLength
\* zero bytes, up to the value: the header with the payload length
\* 1 + 4 + len(key) + 4 + len(value) and the CRC of the payload
\* (0xE9C55BB8), then the op, the key and the value's length.  The value's
\* bytes that follow in the file are not held; Replay stops at the header
\* and reads none of them.
LargeRecordHead ==
    PutUint32(1 + 4 + 1 + 4 + LargeValueLength) \o <<184, 91, 197, 233>>
        \o <<OpPut>> \o PutUint32(1) \o <<97>> \o PutUint32(LargeValueLength)

\* WAL.Append of an entry with a value of 64 MiB returns success: Append has
\* no bound on the size of a record.
WALAppendLarge == WriteChunk(Chunk("large", WALEntry(OpPut, <<97>>, Nil), LargeRecordHead))

\* A crash or a failed write cuts WAL.Append after n bytes.
WALTear(o) ==
    \E n \in WrittenLengths(Record(EntryOf(o))) \ {0, Len(Record(EntryOf(o)))} :
        WriteChunk(Chunk("torn", EntryOf(o), SubSeq(Record(EntryOf(o)), 1, n)))

\* A record of WAL.Append reaches the file with a damaged payload.
WALCorrupt(o) == WriteChunk(Chunk("corrupt", EntryOf(o), Corrupted(Record(EntryOf(o)))))

\* Something else than WAL.Append writes at the end of the file.
WALGarbage == \E g \in Garbage : WriteChunk(Chunk("garbage", WALEntry(0, <<>>, Nil), g))

\* Replay(path)
WALReplay ==
    /\ replayed.of # Len(chunks)
    /\ LET r == Replay(dir.wal)
       IN  replayed' = [entries |-> r.entries, panic |-> r.panic, of |-> Len(chunks)]
    /\ UNCHANGED <<dir, db, acked, maybe, left, last, saved, chunks, tableVars, bloomVars>>

NextWAL ==
    \/ \E o \in Ops : WALAppend(o)
    \/ WALAppendLarge
    \/ \E o \in Ops : WALTear(o)
    \/ \E o \in Ops : WALCorrupt(o)
    \/ WALGarbage
    \/ WALReplay

\* OpenWAL has created the file.
InitWAL ==
    /\ dir = [EmptyDir EXCEPT !.wal = File(<<>>)]
    /\ db = ClosedDB
    /\ acked = NoView
    /\ maybe = [k \in Keys |-> {}]
    /\ left = [ops |-> 0, crashes |-> 0, ioerrs |-> 0]
    /\ last = Step("init", <<>>, "nil", "")
    /\ saved = NoView
    /\ chunks = <<>>
    /\ replayed = NotReplayed
    /\ NoTables
    /\ NoBloom

SpecWAL == InitWAL /\ [][NextWAL]_vars

(***************************************************************************)
(* The log file with records whose CRC matches and whose payload is too    *)
(* short for the key length or the value length it declares.               *)
(***************************************************************************)
\* Payloads of 9 to 11 bytes with a declared key length or value length that
\* the payload does not hold.  For key lengths from 2^32 - 9 on, the sum
\* 5 + keyLen + 4 of decodePayload wraps in uint32, for value lengths from
\* 2^32 - 9 - len(key) on, valOff + 4 + valLen does.
ShortPayloads ==
    {<<OpPut, 5, 0, 0, 0, 0, 0, 0, 0>>,
     <<OpPut, 255, 255, 255, 127, 0, 0, 0, 0>>,
     <<OpPut, 246, 255, 255, 255, 0, 0, 0, 0>>,
     <<OpPut, 247, 255, 255, 255, 0, 0, 0, 0>>,
     <<OpPut, 248, 255, 255, 255, 0, 0, 0, 0>>,
     <<OpPut, 251, 255, 255, 255, 0, 0, 0, 0>>,
     <<OpPut, 255, 255, 255, 255, 0, 0, 0, 0>>,
     <<OpPut, 1, 0, 0, 0, 97, 2, 0, 0, 0, 120>>,
     <<OpPut, 0, 0, 0, 0, 0, 0, 0, 128>>,
     <<OpPut, 0, 0, 0, 0, 246, 255, 255, 255>>,
     <<OpPut, 0, 0, 0, 0, 247, 255, 255, 255>>,
     <<OpPut, 0, 0, 0, 0, 255, 255, 255, 255>>,
     <<OpDelete, 1, 0, 0, 0, 97, 246, 255, 255, 255>>}

\* A record with such a payload, framed with its length and its CRC, is at
\* the end of the file.
WALShort == \E p \in ShortPayloads : WriteChunk(Chunk("short", WALEntry(0, <<>>, Nil), Framed(p)))

NextDecode ==
    \/ \E o \in Ops : WALAppend(o)
    \/ WALShort
    \/ WALReplay

SpecDecode == InitWAL /\ [][NextDecode]_vars

(***************************************************************************)
(* The SSTable files and Compact taken alone: entry lists sorted by key    *)
(* with unique keys are written and opened, then read back, looked up or   *)
(* compacted.                                                              *)
(***************************************************************************)
TableKeys == {<<97>>, <<97, 98>>}

\* What a list holds for a key: nothing, a live value (empty or not), a
\* tombstone as Memtable.Delete makes it (no value), or a tombstone that
\* carries a value.
Choices ==
    {[present |-> FALSE, Value |-> Nil, Tombstone |-> FALSE],
     [present |-> TRUE, Value |-> Bytes(<<>>), Tombstone |-> FALSE],
     [present |-> TRUE, Value |-> Bytes(<<120>>), Tombstone |-> FALSE],
     [present |-> TRUE, Value |-> Nil, Tombstone |-> TRUE],
     [present |-> TRUE, Value |-> Bytes(<<120>>), Tombstone |-> TRUE]}

RECURSIVE EntriesOf(_, _)
\* The entries a choice c makes for the keys S, in the order of the keys.
EntriesOf(c, S) ==
    IF S = {} THEN <<>>
    ELSE (IF c[MinKey(S)].present
          THEN <<SSTableEntry(MinKey(S), c[MinKey(S)].Value, c[MinKey(S)].Tombstone)>>
          ELSE <<>>)
         \o EntriesOf(c, S \ {MinKey(S)})

\* The lists of entries sorted by key with unique keys, the empty one included.
SortedEntries == {EntriesOf(c, TableKeys) : c \in [TableKeys -> Choices]}

\* Compact(readers, outputPath): the file it writes.
Compact(rs) == WriteSSTable(CompactEntries(rs))

\* WriteSSTable and OpenSSTable for each list; the first list gets the
\* highest sequence number.
TableWrite ==
    /\ readers = <<>>
    /\ readers' = [i \in 1..Len(sets) |->
                      OpenSSTable(sstPath(0, Len(sets) + 1 - i), WriteSSTable(sets[i])).reader]
    /\ UNCHANGED <<sets, result>>

\* r.ReadAll() on the i-th reader.
TableReadAll(i) ==
    /\ result' = [NoResult EXCEPT !.op = "ReadAll", !.i = i,
                                  !.entries = ReadAll(readers[i]).entries]
    /\ UNCHANGED <<sets, readers>>

\* r.Get(key) on the i-th reader.
TableGet(i, key) ==
    /\ result' = [NoResult EXCEPT !.op = "Get", !.i = i, !.key = key,
                                  !.entry = SSTableGet(readers[i], key)]
    /\ UNCHANGED <<sets, readers>>

\* Compact on all the readers; the output file is opened and read.  The
\* result also holds what kWayMerge returned inside Compact.
TableCompact ==
    /\ result' = [NoResult EXCEPT
                     !.op = "Compact",
                     !.merged = kWayMerge([i \in 1..Len(readers) |-> ReadAll(readers[i]).entries]),
                     !.entries = ReadAll(OpenSSTable(sstPath(1, Len(readers) + 1),
                                                     Compact(readers)).reader).entries]
    /\ UNCHANGED <<sets, readers>>

NextTable ==
    /\ \/ TableWrite
       \/ /\ readers # <<>>
          /\ result = NoResult
          /\ \/ \E i \in 1..Len(readers) : TableReadAll(i)
             \/ \E i \in 1..Len(readers), k \in TableKeys : TableGet(i, k)
             \/ TableCompact
    /\ UNCHANGED <<dir, db, acked, maybe, left, last, saved, chunks, replayed, bloomVars>>

InitTable ==
    /\ dir = EmptyDir
    /\ db = ClosedDB
    /\ acked = NoView
    /\ maybe = [k \in Keys |-> {}]
    /\ left = [ops |-> 0, crashes |-> 0, ioerrs |-> 0]
    /\ last = Step("init", <<>>, "nil", "")
    /\ saved = NoView
    /\ chunks = <<>>
    /\ replayed = NotReplayed
    /\ sets \in UNION {[1..n -> SortedEntries] : n \in 1..MaxInputs}
    /\ readers = <<>>
    /\ result = NoResult
    /\ NoBloom

SpecTable == InitTable /\ [][NextTable]_vars

(***************************************************************************)
(* The bloom filter taken alone: a filter made by NewBloomFilter, keys     *)
(* added to it, and filters restored by DeserializeBloom from what         *)
(* Serialize wrote or from input shorter than the 8 bytes of the header.   *)
(***************************************************************************)
\* "", "a", "b", "ab", "ba"
BloomKeys == {<<>>, <<97>>, <<98>>, <<97, 98>>, <<98, 97>>}

\* Inputs of fewer than 8 bytes: nothing, numBits alone, a header that
\* lacks its last byte.
ShortInputs == {<<>>, <<10, 0, 0, 0>>, <<10, 0, 0, 0, 7, 0, 0>>}

\* bf.Add(key)
BloomAddKey(key) ==
    /\ ~BloomAdd(bf, key).panic
    /\ bf' = BloomAdd(bf, key).bf
    /\ added' = added \cup {key}
    /\ restored' = NotRestored

\* DeserializeBloom(bf.Serialize())
BloomRoundTrip ==
    /\ restored' = [from |-> "Serialize", data |-> Serialize(bf),
                    bf |-> DeserializeBloom(Serialize(bf))]
    /\ UNCHANGED <<bf, added>>

\* DeserializeBloom(data) for data of fewer than 8 bytes.
BloomDeserializeShort(data) ==
    /\ restored' = [from |-> "short", data |-> data, bf |-> DeserializeBloom(data)]
    /\ UNCHANGED <<bf, added>>

NextBloom ==
    /\ \/ \E k \in BloomKeys : BloomAddKey(k)
       \/ BloomRoundTrip
       \/ \E data \in ShortInputs : BloomDeserializeShort(data)
    /\ UNCHANGED <<dir, db, acked, maybe, left, last, saved, chunks, replayed, tableVars>>

InitBloom ==
    /\ dir = EmptyDir
    /\ db = ClosedDB
    /\ acked = NoView
    /\ maybe = [k \in Keys |-> {}]
    /\ left = [ops |-> 0, crashes |-> 0, ioerrs |-> 0]
    /\ last = Step("init", <<>>, "nil", "")
    /\ saved = NoView
    /\ chunks = <<>>
    /\ replayed = NotReplayed
    /\ NoTables
    /\ bf \in {NewBloomFilter(n) : n \in 0..MaxItems}
    /\ added = {}
    /\ restored = NotRestored

SpecBloom == InitBloom /\ [][NextBloom]_vars

(***************************************************************************)
(* The memtable alone: Put and Delete on db.mem, with no log, no flush and *)
(* no engine around it.  acked holds per key what the last operation on it *)
(* wrote.                                                                  *)
(***************************************************************************)
\* The keys: the empty key, a key, a key it is a prefix of, and a later one.
MemKeys == {<<>>, <<97>>, <<97, 98>>, <<98>>}

\* What the memtable m holds for the key.
HeldBefore(m, key) ==
    IF \E e \in Range(m.entries) : e.key = key /\ e.tombstone THEN "tombstone"
    ELSE IF \E e \in Range(m.entries) : e.key = key THEN "live"
    ELSE "absent"

\* The operation o on the memtable.
MemApply(o) ==
    /\ left.ops > 0
    /\ db' = [db EXCEPT !.mem = MemAfter(db, o)]
    /\ acked' = [acked EXCEPT ![o.key] = OwedBy(o)]
    /\ last' = [Step(o.op, o.key, "nil", "") EXCEPT !.after = HeldBefore(db.mem, o.key)]
    /\ left' = [left EXCEPT !.ops = @ - 1]
    /\ UNCHANGED <<dir, maybe, saved, chunks, replayed, tableVars, bloomVars>>

\* Memtable.Put
MemPut(key, value) == MemApply([op |-> "put", key |-> key, value |-> value])

\* Memtable.Delete
MemDelete(key) == MemApply([op |-> "delete", key |-> key, value |-> Nil])

NextMem ==
    \/ \E k \in MemKeys, v \in Values : MemPut(k, v)
    \/ \E k \in MemKeys : MemDelete(k)

\* NewMemtable
InitMem ==
    /\ dir = EmptyDir
    /\ db = ClosedDB
    /\ acked = [k \in MemKeys |-> NotFoundResult]
    /\ maybe = [k \in Keys |-> {}]
    /\ left = [ops |-> MaxMemOps, crashes |-> 0, ioerrs |-> 0]
    /\ last = Step("init", <<>>, "nil", "")
    /\ saved = NoView
    /\ chunks = <<>>
    /\ replayed = NotReplayed
    /\ NoTables
    /\ NoBloom

SpecMem == InitMem /\ [][NextMem]_vars

(***************************************************************************)
(* Properties of the engine without crashes (Spec).                        *)
(***************************************************************************)
EmptyResult == [found |-> TRUE, value |-> <<>>]

NoIOError == left.ioerrs = MaxIOErrors

\* C1: as long as no append failed, Get(k) on the open engine returns for
\* every key the value of the last Put on k, or NotFound when the last
\* operation on k was a Delete or k was never written.
C1_GetReturnsLastWrite == (db.open /\ NoIOError) => View(db) = acked

\* C6: after a Close and an Open that both succeed, in a workload without a
\* failed append, Get returns for every key what it returned before Close.
C6_CloseOpenPreservesGet ==
    (last.kind = "open" /\ last.after = "close" /\ last.err = "nil" /\ NoIOError)
        => View(db) = saved

\* C7: a key whose last Put was acknowledged with a zero-length value (a nil
\* slice included) is found by Get with a zero-length value.
C7_EmptyValueIsLive ==
    db.open => \A k \in Keys : (acked[k] = EmptyResult /\ maybe[k] = {})
                                  => View(db)[k] = EmptyResult

\* C8: a Delete whose append succeeds returns nil and leaves its key
\* NotFound; when it repeats the acknowledged Delete of the same key before
\* it, Get returns for every key what it returned after the first Delete.
C8_DeleteIdempotent ==
    [][(last'.kind = "delete" /\ last'.err # "io")
          => /\ last'.err = "nil"
             /\ View(db')[last'.key] = NotFoundResult
             /\ (last.kind = "delete" /\ last.key = last'.key /\ last.err = "nil")
                   => View(db') = View(db)]_vars

\* Two acknowledged Deletes of one key in a row, over an older value of the
\* key in an SSTable.
C8_Witness ==
    /\ last.kind = "delete" /\ last.again /\ db.open
    /\ \E i \in 1..Len(db.sstables) :
          LET e == SSTableGet(db.sstables[i], last.key) IN e.found /\ ~e.tombstone

\* C9: a Put or Delete whose WAL append fails returns the error and leaves
\* the memtable, the SSTable list and nextSeq as they were.
C9_FailedAppendChangesNothing ==
    [][last'.err = "io"
          => /\ db'.mem = db.mem
             /\ db'.sstables = db.sstables
             /\ db'.nextSeq = db.nextSeq
             /\ db'.open]_vars

\* A failed append of a Put on an engine with entries in the memtable and
\* an SSTable.
C9_Witness ==
    /\ last.err = "io" /\ last.kind = "put"
    /\ Len(db.mem.entries) > 0 /\ Len(db.sstables) > 0

(***************************************************************************)
(* Properties of the engine with crashes (SpecCrash, SpecFlush).           *)
(***************************************************************************)
\* Get owes, for every key, the result of the last acknowledged operation
\* on it, or that of a later operation that was cut before it returned.
Durable == \A k \in Keys : View(db)[k] = acked[k] \/ View(db)[k] \in maybe[k]

Reopened(at) == last.kind = "open" /\ last.after = "crash" /\ last.afterAt \in at

\* C2: after a crash between two operations and Open, Get returns for every
\* key the result of the last acknowledged operation on it.
C2_AcknowledgedSurviveCrash == Reopened({"idle"}) => (last.err = "nil" /\ Durable)

\* C3: after a second or later crash and Open, every operation acknowledged
\* since the Open that followed an earlier crash is readable through Get.
C3_DurableAcrossRepeatedCrashes ==
    (Reopened({"idle", "append"}) /\ left.crashes <= MaxCrashes - 2)
        => (last.err = "nil" /\ Durable)

\* C4: after a crash inside maybeCompact, once the level-1 output is
\* written, and Open, Get returns for every key what it returned when the
\* compaction started.
C4_CompactionCrashPreservesGet ==
    Reopened({"compact-remove"}) => (last.err = "nil" /\ View(db) = saved)

\* C5: after a crash inside flush (the level-0 SSTable partially written,
\* written with the WAL still there, the WAL removed or recreated), Open
\* succeeds and every acknowledged write is readable.
C5_FlushCrashRecovers ==
    Reopened({"flush-write", "flush-written", "flush-wal-removed", "flush-wal-reset"})
        => (last.err = "nil" /\ Durable)

(***************************************************************************)
(* Properties of Replay (SpecWAL).                                         *)
(***************************************************************************)
\* The payloads of the longest prefix of the file made of complete records
\* whose CRC matches, from byte offset pos.  A record is the encoding of an
\* entry: framed bytes that decodePayload does not accept are not one.
RECURSIVE CompleteRecords(_, _)
CompleteRecords(f, pos) ==
    IF pos + 8 > Len(f) THEN <<>>
    ELSE LET length == Slice(f, pos, pos + 4)
             end    == pos + 8 + Uint32(length)
         IN  IF length[4] >= 128 \/ Uint32(length) > Len(f) - pos - 8 THEN <<>>
             ELSE IF ChecksumIEEE(Slice(f, pos + 8, end)) # Slice(f, pos + 4, pos + 8) THEN <<>>
             ELSE IF ~decodePayload(Slice(f, pos + 8, end)).ok THEN <<>>
             ELSE <<Slice(f, pos + 8, end)>> \o CompleteRecords(f, end)

\* The entries of the records of Append at the head of the file, up to the
\* first chunk that is not one, as Replay decodes them: the value of an
\* entry is a slice of its own, never nil.
RECURSIVE RecordsBefore(_)
RecordsBefore(cs) ==
    IF cs = <<>> \/ Head(cs).kind # "record" THEN <<>>
    ELSE <<WALEntry(Head(cs).entry.Op, Head(cs).entry.Key, Bytes(Head(cs).entry.Value.b))>>
         \o RecordsBefore(Tail(cs))

IsPrefix(s, t) == Len(s) <= Len(t) /\ SubSeq(t, 1, Len(s)) = s

\* C10: Replay ends without an error; the entries it returns are those of
\* the longest prefix of the file made of complete records whose CRC
\* matches; the records that Append wrote before the first torn, corrupted
\* or foreign bytes are among them.
C10_ReplayReturnsValidPrefix ==
    replayed.of = Len(chunks)
        => /\ ~replayed.panic
           /\ [i \in 1..Len(replayed.entries) |-> Payload(replayed.entries[i])]
                 = CompleteRecords(dir.wal.bytes, 0)
           /\ IsPrefix(RecordsBefore(chunks), replayed.entries)

(***************************************************************************)
(* C11: the log written by successful Appends alone.                       *)
(***************************************************************************)
\* Every chunk of the file is a record of an Append that returned success.
OnlyAppends == \A i \in 1..Len(chunks) : chunks[i].kind \in {"record", "large"}

\* The entry Replay returned at i is the one the i-th Append was given:
\* same op, same key, same bytes of the value.
SameEntry(i) ==
    /\ replayed.entries[i].Op = chunks[i].entry.Op
    /\ replayed.entries[i].Key = chunks[i].entry.Key
    /\ IF chunks[i].kind = "large"
       THEN Len(replayed.entries[i].Value.b) = LargeValueLength
       ELSE replayed.entries[i].Value.b = chunks[i].entry.Value.b

\* C11: after Appends that all returned success on a fresh log, Replay
\* returns as many entries as there were Appends, and the i-th has the
\* op, key and value of the i-th Append.
C11_ReplayReturnsAppended ==
    (replayed.of = Len(chunks) /\ OnlyAppends)
        => /\ Len(replayed.entries) = Len(chunks)
           /\ \A i \in 1..Len(chunks) : SameEntry(i)

\* The round trip for records within Replay's bound: every value is short.
C11_ShortRecordsRoundTrip ==
    (replayed.of = Len(chunks) /\ \A i \in 1..Len(chunks) : chunks[i].kind = "record")
        => /\ Len(replayed.entries) = Len(chunks)
           /\ \A i \in 1..Len(chunks) : SameEntry(i)

(***************************************************************************)
(* C12, C13: Compact.                                                      *)
(***************************************************************************)
\* The positions of the key k in a list of entries.
Positions(es, k) == {j \in 1..Len(es) : es[j].Key = k}

\* The entry of k in a list that holds k once.
EntryAt(es, k) == es[CHOOSE j \in Positions(es, k) : TRUE]

\* The inputs that hold k, and the entry of k in the newest of them (the
\* one with the lowest index).
Holders(k) == {i \in 1..Len(sets) : Positions(sets[i], k) # {}}

Newest(k) == EntryAt(sets[CHOOSE i \in Holders(k) : \A j \in Holders(k) : i <= j], k)

\* C12: a key that occurs in the inputs of Compact is once in the merge,
\* with the value and the tombstone flag of the newest input that holds it,
\* whatever the older inputs hold; when that entry is live the output file
\* holds the key once, with that value.
C12_CompactNewestWins ==
    result.op = "Compact" =>
        \A k \in TableKeys :
            Holders(k) # {} =>
                /\ Cardinality(Positions(result.merged, k)) = 1
                /\ EntryAt(result.merged, k).Value.b = Newest(k).Value.b
                /\ EntryAt(result.merged, k).Tombstone = Newest(k).Tombstone
                /\ ~Newest(k).Tombstone =>
                       /\ Cardinality(Positions(result.entries, k)) = 1
                       /\ EntryAt(result.entries, k).Value.b = Newest(k).Value.b

\* Three inputs hold the key "a": the newest with the value "x", the older
\* ones with the empty value and a tombstone; the output holds "x".
C12_Witness ==
    /\ result.op = "Compact"
    /\ Holders(<<97>>) = {1, 2, 3}
    /\ EntryAt(sets[1], <<97>>).Value.b = <<120>>
    /\ EntryAt(sets[2], <<97>>).Value.b = <<>> /\ ~EntryAt(sets[2], <<97>>).Tombstone
    /\ EntryAt(sets[3], <<97>>).Tombstone
    /\ EntryAt(result.entries, <<97>>).Value.b = <<120>>

\* C13: a key is in the output of Compact exactly when some input holds it
\* and its entry in the newest such input is not a tombstone; the output
\* holds no tombstone.
C13_CompactDropsTombstones ==
    result.op = "Compact" =>
        /\ \A k \in TableKeys :
              Positions(result.entries, k) # {} <=> (Holders(k) # {} /\ ~Newest(k).Tombstone)
        /\ \A j \in 1..Len(result.entries) :
              result.entries[j].Key \in TableKeys /\ ~result.entries[j].Tombstone

\* The newest entry of "a" is a tombstone, an older input holds a live
\* value for it, and the output does not hold "a".
C13_Witness ==
    /\ result.op = "Compact"
    /\ Holders(<<97>>) = {1, 2}
    /\ Newest(<<97>>).Tombstone
    /\ EntryAt(sets[2], <<97>>).Value.b = <<120>> /\ ~EntryAt(sets[2], <<97>>).Tombstone
    /\ Positions(result.entries, <<97>>) = {}

(***************************************************************************)
(* C14: the files after a compaction.                                      *)
(***************************************************************************)
\* The step is a Put, Delete or Close that returns nil and whose flush
\* brings the level-0 files to CompactionThreshold: a Put or Delete that
\* flushes takes a sequence number, a Close flushes a memtable that holds
\* entries.
CompactionRan ==
    /\ db.open
    /\ last'.err = "nil"
    /\ \/ last'.kind \in {"put", "delete"} /\ db'.nextSeq > db.nextSeq
       \/ last'.kind = "close" /\ Len(db.mem.entries) > 0
    /\ Len(level0SSTables(dir)) + 1 >= CompactionThreshold

FlushRan ==
    /\ db.open
    /\ last'.err = "nil"
    /\ \/ last'.kind \in {"put", "delete"} /\ db'.nextSeq > db.nextSeq
       \/ last'.kind = "close" /\ Len(db.mem.entries) > 0

\* A memtable entry as key, bytes of the value and tombstone flag.
Flat(key, value, tombstone) == [Key |-> key, Value |-> value, Tombstone |-> tombstone]

\* The entries that were in the memtable when the step called flush: those
\* of before the step and, for a Put or Delete, the one it wrote.
FlushedEntries ==
    IF last'.kind = "close"
    THEN {Flat(m.key, m.value.b, m.tombstone) : m \in Range(db.mem.entries)}
    ELSE {Flat(m.key, m.value.b, m.tombstone) :
              m \in {n \in Range(db.mem.entries) : n.key # last'.key}}
         \cup {Flat(last'.key, acked'[last'.key].value, last'.kind = "delete")}

\* The entries ReadAll returns from a file.
Held(path, file) ==
    {Flat(e.Key, e.Value.b, e.Tombstone) :
        e \in Range(ReadAll(OpenSSTable(path, file).reader).entries)}

\* The file at path is in the directory after the step and not before, and
\* first in the reader list of an engine that stays open.
NewAndFirst(path) ==
    /\ path \in DOMAIN dir'.sst
    /\ path \notin DOMAIN dir.sst
    /\ db'.open => /\ db'.sstables # <<>>
                   /\ db'.sstables[1].path = path
                   /\ db'.sstables[1].file = dir'.sst[path]

C16_ReadAllReturnsWritten ==
    result.op = "ReadAll" =>
        /\ Len(result.entries) = Len(sets[result.i])
        /\ \A j \in 1..Len(result.entries) :
              /\ result.entries[j].Key = sets[result.i][j].Key
              /\ result.entries[j].Value.b = sets[result.i][j].Value.b
              /\ result.entries[j].Tombstone = sets[result.i][j].Tombstone

\* ReadAll has returned the two entries of a file: a tombstone that
\* carries a value, then an entry with the empty value.
C16_Witness ==
    /\ result.op = "ReadAll"
    /\ Len(sets[result.i]) = 2
    /\ sets[result.i][1].Tombstone /\ sets[result.i][1].Value.b = <<120>>
    /\ ~sets[result.i][2].Tombstone /\ sets[result.i][2].Value.b = <<>>
    /\ Len(result.entries) = 2

\* C16 for the empty list: the file of no entries opens and ReadAll
\* returns no entry.
C16_EmptyListWitness ==
    /\ result.op = "ReadAll"
    /\ sets[result.i] = <<>>
    /\ result.entries = <<>>

\* C17: Get(k) on the opened file finds every written key, with the bytes
\* of the written value and the written tombstone flag, and finds no other
\* key; the index holds the written keys in their order, the filter
\* answers true for each of them, and the data entry at each offset of the
\* index is readable.
C17_GetFindsWrittenKeys ==
    /\ \A i \in 1..Len(readers) :
          /\ [j \in 1..Len(readers[i].index) |-> readers[i].index[j].Key]
                = [j \in 1..Len(sets[i]) |-> sets[i][j].Key]
          /\ \A j \in 1..Len(readers[i].index) :
                /\ MayContain(readers[i].bloom, readers[i].index[j].Key).may
                /\ readEntry(readers[i], readers[i].index[j].Offset).found
    /\ result.op = "Get" =>
          IF Positions(sets[result.i], result.key) = {}
          THEN ~result.entry.found
          ELSE /\ result.entry.found
               /\ result.entry.value.b = EntryAt(sets[result.i], result.key).Value.b
               /\ result.entry.tombstone = EntryAt(sets[result.i], result.key).Tombstone

\* Get("ab") has found the second entry of a file, a tombstone.
C17_Witness ==
    /\ result.op = "Get"
    /\ result.key = <<97, 98>>
    /\ Len(sets[result.i]) = 2
    /\ result.entry.found /\ result.entry.tombstone

\* Get("a") on a file that holds only "ab" has found nothing.
C17_AbsentKeyWitness ==
    /\ result.op = "Get"
    /\ result.key = <<97>>
    /\ Len(sets[result.i]) = 1 /\ sets[result.i][1].Key = <<97, 98>>
    /\ ~result.entry.found

(***************************************************************************)
(* C18, C19, C20: the bloom filter.                                        *)
(***************************************************************************)
\* C18: MayContain is true for every key that was added to the filter.
C18_NoFalseNegatives == \A k \in added : MayContain(bf, k).may

\* Four keys, the empty one among them, are in a filter of 10 bits.
C18_Witness ==
    /\ bf.numBits = PutUint32(10)
    /\ Cardinality(added) = 4
    /\ <<>> \in added
    /\ \E k \in BloomKeys : k \notin added

\* C19: the filter DeserializeBloom makes of what Serialize wrote has the
\* same numBits, numHash and bits, so MayContain answers as the original
\* does for every key, and true for every added key.
C19_SerializeRoundTrip ==
    restored.from = "Serialize" =>
        /\ restored.bf.numBits = bf.numBits
        /\ restored.bf.numHash = bf.numHash
        /\ restored.bf.bits = bf.bits
        /\ \A k \in BloomKeys : MayContain(restored.bf, k) = MayContain(bf, k)
        /\ \A k \in added : MayContain(restored.bf, k).may

\* A filter of 20 bits that holds two keys and answers false for another
\* has been serialized and restored.
C19_Witness ==
    /\ restored.from = "Serialize"
    /\ bf.numBits = PutUint32(20)
    /\ Cardinality(added) = 2
    /\ \E k \in BloomKeys : ~MayContain(restored.bf, k).may

\* C20: the filter DeserializeBloom makes of fewer than 8 bytes answers
\* true for every key.
C20_ShortInputMayContainAll ==
    restored.from = "short" => \A k \in BloomKeys : MayContain(restored.bf, k).may

(***************************************************************************)
(* C21: a compaction that fails.                                           *)
(***************************************************************************)
\* The memtables a Put or Delete with the key of the step leaves.
Written == {MemAfter(db, o) : o \in {p \in Ops : p.op = last'.kind /\ p.key = last'.key}}

\* The step is a Put, Delete or Close whose flush succeeded and whose
\* compaction failed: at the open of an input or in the write of the
\* output when the failure is an I/O error of the step, at the open of an
\* input (no place recorded) when an earlier failure left a file that
\* OpenSSTable rejects.
CompactionFailed == last'.err = "flush" /\ last'.at \in {"compact-open", "compact-write", ""}

\* C21: when compaction fails, its inputs (the files from before the step
\* and the file the flush of the step wrote at db.nextSeq) are all still
\* in the directory, the older ones as they were; the reader list is the
\* one the flush left, the new file on top of the readers from before; and
\* Get returns for every key what it returned when the compaction started.
C21_FailedCompactionKeepsInputs ==
    [][CompactionFailed =>
          /\ sstPath(0, db.nextSeq) \in DOMAIN dir'.sst
          /\ \A q \in DOMAIN dir.sst \ {sstPath(0, db.nextSeq)} :
                q \in DOMAIN dir'.sst /\ dir'.sst[q] = dir.sst[q]
          /\ db'.open
          /\ Len(db'.sstables) = Len(db.sstables) + 1
          /\ db'.sstables[1].path = sstPath(0, db.nextSeq)
          /\ db'.sstables[1].file = dir'.sst[sstPath(0, db.nextSeq)]
          /\ Tail(db'.sstables) = db.sstables
          /\ Len(db'.mem.entries) = 0
          /\ IF last'.kind = "close" THEN View(db') = View(db)
             ELSE \E m \in Written : View(db') = View([db EXCEPT !.mem = m])]_vars

\* A Put has flushed a fifth level-0 file next to the output an earlier
\* failed compaction left, which the compaction of this Put could not
\* open: the five readers are in the list.
C21_RejectedInputWitness ==
    /\ db.open
    /\ last.kind = "put" /\ last.err = "flush" /\ last.at = ""
    /\ Len(db.sstables) = 5
    /\ sstPath(1, 5) \in DOMAIN dir.sst /\ sstPath(0, 5) \in DOMAIN dir.sst
    /\ ~OpenSSTable(sstPath(1, 5), dir.sst[sstPath(1, 5)]).ok

\* The compaction of four level-0 files has failed while it wrote its
\* output: the four readers are in the list and the unfinished output is
\* in the directory.
C21_Witness ==
    /\ db.open
    /\ last.err = "flush" /\ last.at = "compact-write"
    /\ Len(db.sstables) = 4
    /\ DOMAIN dir.sst = {sstPath(0, 1), sstPath(0, 2), sstPath(0, 3), sstPath(0, 4), sstPath(1, 5)}
    /\ \E k \in Keys : View(db)[k].found

\* The compaction that failed while it wrote its output had a level-1 input:
\* the output of an earlier compaction below four level-0 files.  The five
\* readers are in the list, each on its file of the directory, next to the
\* unfinished output.
C21_Level1InputWitness ==
    /\ db.open
    /\ last.err = "flush" /\ last.at = "compact-write"
    /\ Len(db.sstables) = 5
    /\ db.sstables[5].path = sstPath(1, 5)
    /\ \A i \in 1..4 : db.sstables[i].path.level = 0
    /\ \A r \in Range(db.sstables) : r.path \in DOMAIN dir.sst /\ dir.sst[r.path] = r.file
    /\ sstPath(1, db.nextSeq) \in DOMAIN dir.sst
    /\ \E k \in Keys : View(db)[k].found

(***************************************************************************)
(* C22: a flush that fails.                                                *)
(***************************************************************************)
\* The step is a Put, Delete or Close whose flush failed before the new
\* SSTable was written and opened.
FlushWriteFailed == last'.err = "flush" /\ last'.at \in {"flush-create", "flush-write"}

\* The entries of a memtable as keys, bytes of the values and flags.
FlatMem(mem) == {Flat(m.key, m.value.b, m.tombstone) : m \in Range(mem.entries)}

\* The memtable and the log as flush found them in the step: those of
\* before a Close; for a Put or Delete those with the entry of the step.
BeforeFlush ==
    IF last'.kind = "close"
    THEN {[mem |-> db.mem, wal |-> dir.wal]}
    ELSE {[mem |-> MemAfter(db, o), wal |-> AppendWAL(dir, EntryOf(o)).wal] :
              o \in {p \in Ops : p.op = last'.kind /\ p.key = last'.key}}

\* C22: when flush fails before the new SSTable is written and opened, the
\* memtable and the WAL are the ones flush found, the engine stays open,
\* Get answers from the memtable as before the flush, and replaying the WAL
\* yields every entry of the memtable (next to them, the entries of an
\* earlier flush whose removal of the log failed).
C22_FailedFlushKeepsMemtableAndWAL ==
    [][FlushWriteFailed =>
          /\ db'.open
          /\ \E b \in BeforeFlush :
                /\ db'.mem = b.mem
                /\ dir'.wal = b.wal
                /\ View(db') = View([db EXCEPT !.mem = b.mem])
          /\ db'.sstables = db.sstables
          /\ Len(db'.mem.entries) > 0
          /\ ~Replay(dir'.wal).panic
          /\ FlatMem(db'.mem)
                \subseteq FlatMem(ReplayInto(NewMemtable(db'.mem.threshold),
                                             Replay(dir'.wal).entries))]_vars

\* The part of C22 about the flush itself: when flush fails before the new
\* SSTable is written and opened, the memtable and the WAL are the ones
\* flush found, byte for byte, the reader list is unchanged, the engine
\* stays open and Get answers from the memtable as before the flush.
C22_FailedFlushChangesNothing ==
    [][FlushWriteFailed =>
          /\ db'.open
          /\ \E b \in BeforeFlush :
                /\ db'.mem = b.mem
                /\ dir'.wal = b.wal
                /\ View(db') = View([db EXCEPT !.mem = b.mem])
          /\ db'.sstables = db.sstables
          /\ Len(db'.mem.entries) > 0]_vars

\* A flush has failed on a log in which an earlier append, which returned
\* an error, had left bytes: the memtable holds the entry of an earlier call
\* that returned nil, and Replay of the log does not return it.
C22_TornLogWitness ==
    /\ db.open
    /\ last.err = "flush" /\ last.at \in {"flush-create", "flush-write"}
    /\ Len(db.mem.entries) > 0
    /\ \E k \in Keys \ {last.key} : MemtableGet(db.mem, k).found
    /\ Replay(dir.wal).entries = <<>>

\* The write of the SSTable failed in a Put that filled the memtable: the
\* memtable is full, the WAL holds its records and an unfinished level-0
\* file is in the directory.
C22_Witness ==
    /\ db.open
    /\ last.kind = "put" /\ last.err = "flush" /\ last.at = "flush-write"
    /\ IsFull(db.mem)
    /\ Len(dir.wal.bytes) > 0
    /\ \E q \in DOMAIN dir.sst : q.level = 0 /\ ~OpenSSTable(q, dir.sst[q]).ok

(***************************************************************************)
(* C27, C28: sequence numbers and the reader list.                         *)
(***************************************************************************)
\* C27: while the engine is open, nextSeq is greater than the sequence
\* number of every SSTable file of the directory, and no two files of the
\* directory carry the same sequence number, also after a flush or a
\* compaction that failed.
C27_NextSeqAboveEveryFile ==
    db.open =>
        /\ \A q \in DOMAIN dir.sst : q.seq < db.nextSeq
        /\ \A q1, q2 \in DOMAIN dir.sst : q1 # q2 => q1.seq # q2.seq

\* C28: while the engine is open, the reader list is ordered by strictly
\* descending sequence number and lists exactly the SSTable files of the
\* directory, each reader on the file of its path.
C28_ReadersMatchDirectory ==
    db.open =>
        /\ \A i \in 1..(Len(db.sstables) - 1) :
              db.sstables[i].path.seq > db.sstables[i + 1].path.seq
        /\ {r.path : r \in Range(db.sstables)} = DOMAIN dir.sst
        /\ \A r \in Range(db.sstables) : r.file = dir.sst[r.path]

(***************************************************************************)
(* C23: Close.                                                             *)
(***************************************************************************)
\* The step is a Close that returned nil.
CloseRan == db.open /\ last'.kind = "close" /\ last'.err = "nil"

\* C23: Close on an engine whose memtable holds no entries creates and
\* deletes no SSTable file and leaves the WAL as it is.  Close on a
\* non-empty memtable writes the entries of the memtable to one new level-0
\* SSTable, at the sequence number nextSeq, next to the files from before,
\* and leaves an empty WAL.  The directory Close leaves is the one
\* maybeCompact makes of that: the same when the new file is not the fourth
\* of level 0; otherwise one level-1 file that holds the live entries of
\* the memtable and no entry for the keys of its tombstones.
C23_CloseFlushesNonEmptyMemtable ==
    [][CloseRan =>
          /\ ~db'.open
          /\ IF Len(db.mem.entries) = 0
             THEN dir'.sst = dir.sst /\ dir'.wal = dir.wal
             ELSE /\ dir'.wal = File(<<>>)
                  /\ sstPath(0, db.nextSeq) \notin DOMAIN dir.sst
                  /\ DOMAIN flushBeforeCompact(db, dir).dir.sst
                        = DOMAIN dir.sst \cup {sstPath(0, db.nextSeq)}
                  /\ \A q \in DOMAIN dir.sst : flushBeforeCompact(db, dir).dir.sst[q] = dir.sst[q]
                  /\ Held(sstPath(0, db.nextSeq),
                          flushBeforeCompact(db, dir).dir.sst[sstPath(0, db.nextSeq)])
                        = FlatMem(db.mem)
                  /\ IF Len(level0SSTables(dir)) + 1 < CompactionThreshold
                     THEN dir'.sst = flushBeforeCompact(db, dir).dir.sst
                     ELSE /\ DOMAIN dir'.sst = {sstPath(1, db.nextSeq + 1)}
                          /\ \A e \in FlatMem(db.mem) :
                                IF e.Tombstone
                                THEN \A h \in Held(sstPath(1, db.nextSeq + 1),
                                                   dir'.sst[sstPath(1, db.nextSeq + 1)]) :
                                        h.Key # e.Key
                                ELSE e \in Held(sstPath(1, db.nextSeq + 1),
                                                dir'.sst[sstPath(1, db.nextSeq + 1)])]_vars

\* Close has flushed a memtable of one entry into the second level-0 file:
\* the engine is closed, the WAL is empty, and the file holds one entry.
C23_Witness ==
    /\ ~db.open
    /\ last.kind = "close" /\ last.err = "nil"
    /\ dir.wal = File(<<>>)
    /\ DOMAIN dir.sst = {sstPath(0, 1), sstPath(0, 2)}
    /\ Cardinality(Held(sstPath(0, 2), dir.sst[sstPath(0, 2)])) = 1
    /\ Cardinality(Held(sstPath(0, 1), dir.sst[sstPath(0, 1)])) = 2

\* Close has flushed the fourth level-0 file and compacted: one level-1
\* file is left.
C23_CompactedWitness ==
    /\ ~db.open
    /\ last.kind = "close" /\ last.err = "nil"
    /\ dir.wal = File(<<>>)
    /\ DOMAIN dir.sst = {sstPath(1, 5)}

(***************************************************************************)
(* C24: the order in which Get consults the tiers.                         *)
(***************************************************************************)
\* The entries for key k, newest tier first: the one of the memtable, then
\* those ReadAll finds in the readers in the order of the list.
TierEntries(k) ==
    SelectSeq(db.mem.entries, LAMBDA m : m.key = k)
    \o [i \in 1..Len(SelectSeq(db.sstables,
                               LAMBDA r : \E e \in Range(ReadAll(r).entries) : e.Key = k)) |->
          LET r == SelectSeq(db.sstables,
                             LAMBDA t : \E e \in Range(ReadAll(t).entries) : e.Key = k)[i]
              e == CHOOSE x \in Range(ReadAll(r).entries) : x.Key = k
          IN  [key |-> e.Key, value |-> e.Value, tombstone |-> e.Tombstone]]

\* What an entry means to a caller of Get: NotFound for a tombstone, the
\* value of a live entry.
OutcomeOf(e) == IF e.tombstone THEN NotFoundResult ELSE [found |-> TRUE, value |-> e.value.b]

\* The readers are ordered by strictly descending sequence number.
NewestFirst ==
    \A i \in 1..(Len(db.sstables) - 1) : db.sstables[i].path.seq > db.sstables[i + 1].path.seq

\* C24: while the engine is open the readers are ordered by strictly
\* descending sequence number, and Get returns for every key the outcome of
\* the first tier that holds an entry for it, the memtable before the
\* readers: NotFound when that entry is a tombstone, its value when it is
\* live, whatever older tiers hold, and NotFound when no tier holds one.
C24_GetReturnsNewestTier ==
    db.open =>
        /\ NewestFirst
        /\ \A k \in Keys :
              View(db)[k] = IF TierEntries(k) = <<>> THEN NotFoundResult
                            ELSE OutcomeOf(TierEntries(k)[1])

(***************************************************************************)
(* C25: the order of the steps of flush.                                   *)
(***************************************************************************)
\* The step is a crash inside flush or inside its call of maybeCompact.
FlushCut ==
    /\ db.open
    /\ last'.kind = "crash"
    /\ last'.at \in {"flush-write", "flush-written", "flush-wal-removed", "flush-wal-reset",
                     "compact-write", "compact-remove"}

\* The memtables and logs flush can have found in the step: those of before
\* (Close), or those a Put or Delete made of them.
FlushFound ==
    {b \in {[mem |-> db.mem, wal |-> dir.wal]}
           \cup {[mem |-> MemAfter(db, o), wal |-> AppendWAL(dir, EntryOf(o)).wal] : o \in Ops} :
        Len(b.mem.entries) > 0}

\* The file at path is a complete SSTable.
Complete(d, path) == path \in DOMAIN d.sst /\ OpenSSTable(path, d.sst[path]).ok

\* C25: in the state a crash inside flush leaves, either the WAL file is
\* the one flush found, with all its records, or the SSTable that holds
\* them is complete on disk: the level-0 file of the flush, byte for byte
\* what WriteSSTable writes for the memtable, or, once the compaction of
\* the same flush has started to remove its inputs, its level-1 output
\* with the live entries of the memtable.  A WAL that is missing or empty
\* never goes with a level-0 file that is not completely written.
C25_SSTableCompleteBeforeWALReset ==
    [][FlushCut =>
          \E b \in FlushFound :
             \/ /\ dir'.wal = b.wal
                /\ last'.at \in {"flush-write", "flush-written"}
             \/ /\ last'.at \notin {"flush-write", "flush-written"}
                /\ dir'.wal \in {NoFile, File(<<>>)}
                /\ \/ /\ sstPath(0, db.nextSeq) \in DOMAIN dir'.sst
                      /\ dir'.sst[sstPath(0, db.nextSeq)] = WriteSSTable(FlushEntries(b.mem))
                   \/ /\ last'.at = "compact-remove"
                      /\ Complete(dir', sstPath(1, db.nextSeq + 1))
                      /\ \A e \in FlatMem(b.mem) :
                            ~e.Tombstone => e \in Held(sstPath(1, db.nextSeq + 1),
                                                       dir'.sst[sstPath(1, db.nextSeq + 1)])]_vars

\* The process died after flush removed the WAL and before it recreated
\* it: the level-0 file of the flush is complete.
C25_Witness ==
    /\ ~db.open
    /\ last.kind = "crash" /\ last.at = "flush-wal-removed"
    /\ dir.wal = NoFile
    /\ DOMAIN dir.sst = {sstPath(0, 1), sstPath(0, 2)}
    /\ Complete(dir, sstPath(0, 2))

\* The process died while flush wrote the SSTable: the file is not
\* complete and the WAL holds its records.
C25_PartialWitness ==
    /\ ~db.open
    /\ last.kind = "crash" /\ last.at = "flush-write"
    /\ Len(dir.wal.bytes) > 0
    /\ sstPath(0, 1) \in DOMAIN dir.sst
    /\ ~Complete(dir, sstPath(0, 1))

(***************************************************************************)
(* C26: records appended after a failed append.                            *)
(***************************************************************************)
\* The Appends that returned success, in order.
Acknowledged == SelectSeq(chunks, LAMBDA c : c.kind = "record")

\* C26: on a log that holds records of Appends that returned success and
\* the bytes of Appends that failed after a short write, Replay returns the
\* entry of every Append that returned success, in order.
C26_ReplayPassesFailedAppends ==
    (replayed.of = Len(chunks) /\ \A i \in 1..Len(chunks) : chunks[i].kind \in {"record", "torn"})
        => /\ ~replayed.panic
           /\ Len(replayed.entries) = Len(Acknowledged)
           /\ \A i \in 1..Len(Acknowledged) :
                 /\ replayed.entries[i].Op = Acknowledged[i].entry.Op
                 /\ replayed.entries[i].Key = Acknowledged[i].entry.Key
                 /\ replayed.entries[i].Value.b = Acknowledged[i].entry.Value.b

(***************************************************************************)
(* C29: how many files compaction leaves.                                  *)
(***************************************************************************)
\* The level-0 files of the directory became fewer in the step.
Compacted == Len(level0SSTables(dir')) < Len(level0SSTables(dir))

\* C29: without crashes and I/O errors, after every Open, Put, Delete and
\* Close the directory holds fewer than CompactionThreshold (4) level-0
\* files and at most one level-1 file.  The level-0 files become fewer only
\* in the step whose flush creates the fourth: that step leaves one file,
\* of level 1, which holds for every key the live value the files of both
\* levels and the memtable held for it, and nothing for the other keys.
C29_CompactionBoundsFiles ==
    [][/\ Len(level0SSTables(dir')) < CompactionThreshold
       /\ Cardinality({q \in DOMAIN dir'.sst : q.level = 1}) <= 1
       /\ ~Compacted => \A q \in DOMAIN dir.sst : q \in DOMAIN dir'.sst
       /\ Compacted =>
             /\ Len(level0SSTables(dir)) = CompactionThreshold - 1
             /\ last'.kind \in {"put", "delete", "close"}
             /\ DOMAIN dir'.sst = {sstPath(1, db.nextSeq + 1)}
             /\ Held(sstPath(1, db.nextSeq + 1), dir'.sst[sstPath(1, db.nextSeq + 1)])
                   = {Flat(k, acked'[k].value, FALSE) : k \in {j \in Keys : acked'[j].found}}]_vars

\* The second compaction has merged the level-1 file of the first and four
\* level-0 files into one level-1 file.
C29_Witness ==
    /\ db.open
    /\ last.kind \in {"put", "delete"} /\ last.err = "nil"
    /\ DOMAIN dir.sst = {sstPath(1, 10)}
    /\ db.nextSeq = 11
    /\ \E k \in Keys : acked[k].found

(***************************************************************************)
(* C30: the memtable under Put and Delete.                                 *)
(***************************************************************************)
\* The entry of the memtable m for the key, as a set: empty or one entry
\* when the keys are unique.
EntriesFor(m, key) == {e \in Range(m.entries) : e.key = key}

\* The bytes of a come before those of b: at the first index where they
\* differ the byte of a is smaller, or a is a proper prefix of b.
Before(a, b) ==
    \/ \E i \in 1..Len(a) : /\ i <= Len(b)
                            /\ SubSeq(a, 1, i - 1) = SubSeq(b, 1, i - 1)
                            /\ a[i] < b[i]
    \/ Len(a) < Len(b) /\ SubSeq(b, 1, Len(a)) = a

\* C30: after every Put and Delete on the memtable its keys are strictly
\* increasing, so that no key has two entries; the entries of the other
\* keys are as before; after Put the key has a live entry with the value
\* given, also when it held a tombstone; after Delete the key has a
\* tombstone with no value, also when it held a live value.
C30_MemtableSortedAndFlagsFollow ==
    [][/\ \A i \in 1..(Len(db'.mem.entries) - 1) :
             Before(db'.mem.entries[i].key, db'.mem.entries[i + 1].key)
       /\ \A k \in MemKeys \ {last'.key} : EntriesFor(db'.mem, k) = EntriesFor(db.mem, k)
       /\ \A e \in Range(db'.mem.entries) : e.key \in MemKeys
       /\ last'.kind = "put" =>
             \E e \in Range(db'.mem.entries) :
                /\ EntriesFor(db'.mem, last'.key) = {e}
                /\ ~e.tombstone
                /\ e.value.b = acked'[last'.key].value
       /\ last'.kind = "delete" =>
             EntriesFor(db'.mem, last'.key) = {memEntry(last'.key, Nil, TRUE)}]_vars

\* A Put has made a key live again that held a tombstone, with a value of
\* one byte, between two other keys.
C30_Witness ==
    /\ last.kind = "put" /\ last.after = "tombstone" /\ last.key = <<97, 98>>
    /\ Len(db.mem.entries) = 3
    /\ db.mem.entries[2] = memEntry(<<97, 98>>, Bytes(<<120>>), FALSE)

\* A Delete has turned a live value into a tombstone.
C30_DeleteWitness ==
    /\ last.kind = "delete" /\ last.after = "live"
    /\ EntriesFor(db.mem, last.key) = {memEntry(last.key, Nil, TRUE)}
    /\ Len(db.mem.entries) = 2


(***************************************************************************)
(* C31: the tracked size of the memtable.                                  *)
(***************************************************************************)
\* len(key) + len(value) + 1 of one entry; the value of a tombstone is nil.
EntrySize(e) == Len(e.key) + Len(e.value.b) + 1

RECURSIVE SumOfSizes(_)
SumOfSizes(entries) ==
    IF entries = <<>> THEN 0 ELSE EntrySize(Head(entries)) + SumOfSizes(Tail(entries))

\* C31: after any sequence of Put and Delete on the memtable the tracked
\* size is the sum of len(key) + len(value) + 1 over the entries, a
\* tombstone counting a value of length 0; it is never negative, and IsFull
\* is true exactly when that sum is at least the threshold.
C31_SizeIsSumOfEntries ==
    /\ db.mem.size = SumOfSizes(db.mem.entries)
    /\ db.mem.size >= 0
    /\ \A e \in Range(db.mem.entries) : e.tombstone => Len(e.value.b) = 0
    /\ IsFull(db.mem) <=> SumOfSizes(db.mem.entries) >= db.mem.threshold

\* A Put that replaced the value of a live key by a shorter one, in a
\* memtable that is full.
C31_Witness ==
    /\ last.kind = "put"
    /\ last.after = "live"
    /\ \E e \in Range(db.mem.entries) : e.key = last.key /\ Len(e.value.b) = 0
    /\ Len(db.mem.entries) = 2
    /\ db.mem.size = 4
    /\ IsFull(db.mem)

\* A Delete of a live key that leaves the memtable below its threshold.
C31_DeleteWitness ==
    /\ last.kind = "delete"
    /\ last.after = "live"
    /\ Len(db.mem.entries) = 1
    /\ db.mem.size = 2
    /\ ~IsFull(db.mem)

(***************************************************************************)
(* C32: the memtable between operations.                                   *)
(***************************************************************************)
\* The last step is a Put or a Delete that returned nil.
Completed == last.kind \in {"put", "delete"} /\ last.err = "nil"

\* C32: without I/O errors, after every completed Put or Delete the tracked
\* size of the memtable is below the threshold: the operation that fills
\* the memtable flushes it before it returns.  This holds too when the
\* operation started on a memtable that Open had filled from the log.
C32_MemtableBelowThresholdAfterWrite ==
    Completed => db.mem.size < db.mem.threshold

\* A Put that filled the memtable and flushed it: the memtable is empty,
\* the log is reset and the newest reader holds the key.
C32_Witness ==
    /\ Completed
    /\ last.kind = "put"
    /\ db.mem.entries = <<>>
    /\ db.mem.size = 0
    /\ dir.wal.bytes = <<>>
    /\ Len(db.sstables) > 0
    /\ SSTableGet(db.sstables[1], last.key).found

\* A Delete that left a memtable below the threshold and did not flush.
C32_UnflushedWitness ==
    /\ Completed
    /\ last.kind = "delete"
    /\ db.mem.size = 2
    /\ Len(db.mem.entries) = 1
    /\ dir.wal.bytes # <<>>

(***************************************************************************)
(* C33: the entry lists handed to WriteSSTable.                            *)
(***************************************************************************)
\* The keys of the entries are strictly increasing: sorted and unique.
StrictlyIncreasing(es) == \A i \in 1..(Len(es) - 1) : KeyLess(es[i].Key, es[i + 1].Key)

\* The readers maybeCompact opens on the directory d.
CompactionInputs(d) == OpenAll(d, allSSTables(d), <<>>).readers

\* The lists of the compaction that maybeCompact runs on the directory d,
\* if it runs one, are in order: the lists ReadAll gives Compact, their
\* merge, and the list Compact hands to WriteSSTable.
CompactListsInOrder(d) ==
    LET inputs == CompactionInputs(d)
        lists  == [i \in 1..Len(inputs) |-> ReadAll(inputs[i]).entries]
    IN  Len(level0SSTables(d)) >= CompactionThreshold
          => /\ \A i \in 1..Len(lists) : StrictlyIncreasing(lists[i])
             /\ StrictlyIncreasing(kWayMerge(lists))
             /\ StrictlyIncreasing(CompactEntries(inputs))

\* The lists of the flush of the memtable m of the engine e on the directory
\* d are in order: the list flush hands to WriteSSTable and the lists of
\* the compaction that follows it.
FlushListsInOrder(e, d, m) ==
    /\ StrictlyIncreasing(FlushEntries(m))
    /\ CompactListsInOrder(flushBeforeCompact([e EXCEPT !.mem = m], d).dir)

\* C33: every entry list the engine hands to WriteSSTable has strictly
\* increasing keys: the list of the flush that Close or a Put or Delete
\* that fills the memtable starts from the state, and the list of the
\* Compact that this flush starts, whose inputs and whose merge are
\* strictly increasing as well.  So every SSTable file of the directory
\* has strictly increasing keys.
C33_WriterGetsSortedUniqueKeys ==
    /\ \A p \in DOMAIN dir.sst :
          /\ OpenSSTable(p, dir.sst[p]).ok
          /\ StrictlyIncreasing(ReadAll(OpenSSTable(p, dir.sst[p]).reader).entries)
    /\ db.open /\ Len(db.mem.entries) > 0 => FlushListsInOrder(db, dir, db.mem)
    /\ db.open /\ left.ops > 0 =>
          \A o \in Ops :
              /\ StrictlyIncreasing(FlushEntries(MemAfter(db, o)))
              /\ IsFull(MemAfter(db, o)) =>
                    FlushListsInOrder(db, AppendWAL(dir, EntryOf(o)), MemAfter(db, o))

\* A compaction has merged files that hold both keys, each in more than
\* one file, into a level-1 file with the two keys in order.
C33_Witness ==
    /\ last.kind \in {"put", "delete"} /\ last.err = "nil"
    /\ Len(db.sstables) = 1
    /\ db.sstables[1].path.level = 1
    /\ Len(ReadAll(db.sstables[1]).entries) = 2
    /\ ReadAll(db.sstables[1]).entries[1].Key = <<97>>
    /\ ReadAll(db.sstables[1]).entries[2].Key = <<98>>

\* A flush has written a list of two entries that were put into the
\* memtable in the other order: the key "b" first.
C33_FlushWitness ==
    /\ last.kind = "delete" /\ last.err = "nil" /\ last.key = <<97>>
    /\ db.mem.entries = <<>>
    /\ Len(db.sstables) > 0
    /\ db.sstables[1].path.level = 0
    /\ Len(ReadAll(db.sstables[1]).entries) = 2
    /\ ReadAll(db.sstables[1]).entries[1].Key = <<97>>
    /\ ReadAll(db.sstables[1]).entries[2].Key = <<98>>

\* The merge alone, on every choice of up to MaxInputs strictly increasing
\* lists: what kWayMerge returns and what Compact writes are strictly
\* increasing.
C33_MergeKeepsOrder ==
    /\ \A i \in 1..Len(sets) : StrictlyIncreasing(sets[i])
    /\ result.op = "Compact" =>
          StrictlyIncreasing(result.merged) /\ StrictlyIncreasing(result.entries)

(***************************************************************************)
(* C34: records whose payload is too short for its declared lengths.       *)
(***************************************************************************)
\* The declared key length or value length of the payload is so large that
\* a sum of decodePayload wraps in uint32 arithmetic.
Wraps(p) ==
    \/ LessUint32(AddUint32(AddUint32(<<5, 0, 0, 0>>, Slice(p, 1, 5)), <<4, 0, 0, 0>>),
                  <<9, 0, 0, 0>>)
    \/ /\ Slice(p, 1, 5)[2] = 0 /\ Slice(p, 1, 5)[3] = 0 /\ Slice(p, 1, 5)[4] = 0
       /\ 9 + Slice(p, 1, 5)[1] <= Len(p)
       /\ LessUint32(AddUint32(PutUint32(9 + Slice(p, 1, 5)[1]),
                               Slice(p, 5 + Slice(p, 1, 5)[1], 9 + Slice(p, 1, 5)[1])),
                     PutUint32(9 + Slice(p, 1, 5)[1]))

\* No record of the file declares a length that makes a sum wrap.
NoneWraps ==
    \A i \in 1..Len(chunks) :
        chunks[i].kind = "short" => ~Wraps(Slice(chunks[i].bytes, 8, Len(chunks[i].bytes)))

\* C34: a record whose CRC matches and whose payload is too short for its
\* declared key length or value length ends Replay silently, for every
\* value of the length fields: Replay does not abort and returns the
\* records before it.
C34_ShortPayloadEndsReplaySilently ==
    replayed.of = Len(chunks)
        => /\ ~replayed.panic
           /\ replayed.entries = RecordsBefore(chunks)

\* The same for the length fields whose sums do not wrap.
C34_UnwrappedEndsReplaySilently ==
    replayed.of = Len(chunks) /\ NoneWraps
        => /\ ~replayed.panic
           /\ replayed.entries = RecordsBefore(chunks)

\* Replay of a file whose second record declares a value length that the
\* payload does not hold has returned the first record.
C34_UnwrappedWitness ==
    /\ replayed.of = Len(chunks)
    /\ Len(chunks) = 3
    /\ chunks[1].kind = "record"
    /\ chunks[2].kind = "short"
    /\ chunks[3].kind = "record"
    /\ NoneWraps
    /\ Len(replayed.entries) = 1

\* With a wrapping length field, Replay aborts.
C34_WrappedAborts ==
    replayed.of = Len(chunks) /\ ~NoneWraps /\ chunks[1].kind = "short" /\ Len(chunks) = 1
        => replayed.panic

(***************************************************************************)
(* C35: a compaction in which the read of one entry fails.                 *)
(***************************************************************************)
\* The last step is a Put, a Delete or a Close whose compaction skipped the
\* entry of the key result.key in the input result.i (1 is the newest input).
Skipped == last.at = "compact-skip" /\ result.op = "Compact"

\* The engine that answers Get after the step: the one the process has
\* open, or after a Close the one that the next Open returns.
Engine == IF db.open THEN db ELSE DBOpen(dir).db

\* The inputs other than the one with the failed read that hold the key.
OtherHolders == {j \in 1..Len(sets) \ {result.i} : \E e \in Range(sets[j]) : e.Key = result.key}

\* What a caller sees of the entry of the key in the list es.
Seen(es, key) ==
    LET e == CHOOSE x \in Range(es) : x.Key = key
    IN  IF e.Tombstone THEN NotFoundResult ELSE [found |-> TRUE, value |-> e.Value.b]

\* Compact has returned nil, the inputs are removed, and the engine reads
\* the one level-1 file, which holds the list Compact wrote, in key order.
CompactedWithoutEntry ==
    /\ last.err = "nil"
    /\ db.open = (last.kind # "close")
    /\ Len(Engine.sstables) = 1
    /\ Engine.sstables[1].path.level = 1
    /\ DOMAIN dir.sst = {Engine.sstables[1].path}
    /\ ReadAll(Engine.sstables[1]).entries = result.entries
    /\ StrictlyIncreasing(result.entries)

\* C35 as stated: when the read of an entry fails in ReadAll, Compact
\* succeeds without the entry, the inputs are deleted, and the key of the
\* skipped entry is absent from the engine.
C35_SkippedKeyAbsent ==
    Skipped => /\ CompactedWithoutEntry
               /\ View(Engine)[result.key] = NotFoundResult

\* C35 amended: Compact succeeds without the entry and the inputs are
\* deleted; the other keys read as before; the key of the skipped entry
\* reads as the newest other input that holds it says (its value, or absent
\* for a tombstone), and is absent only when no other input holds it.
C35_SkippedKeyFallsBack ==
    Skipped =>
        /\ CompactedWithoutEntry
        /\ \A k \in Keys \ {result.key} : View(Engine)[k] = saved[k]
        /\ View(Engine)[result.key] =
              IF OtherHolders = {} THEN NotFoundResult
              ELSE Seen(sets[CHOOSE j \in OtherHolders : \A h \in OtherHolders : j <= h],
                        result.key)

\* The skipped entry was the only one of its key and was live: the key
\* could be read before the compaction and is absent after it.
C35_Witness ==
    /\ Skipped
    /\ db.open
    /\ OtherHolders = {}
    /\ saved[result.key].found
    /\ ~View(db)[result.key].found

\* The same in the compaction that the flush of a Close started: the key
\* is absent from the engine that the next Open returns.
C35_CloseWitness ==
    /\ Skipped
    /\ last.kind = "close"
    /\ ~db.open
    /\ OtherHolders = {}
    /\ saved[result.key].found
    /\ ~View(DBOpen(dir).db)[result.key].found

\* The skipped entry was a tombstone above a live value of an older input:
\* the key was deleted before the compaction and has the old value after it.
C35_ResurrectedWitness ==
    /\ Skipped
    /\ result.i < Len(sets)
    /\ \A j \in OtherHolders : j > result.i
    /\ ~saved[result.key].found
    /\ View(Engine)[result.key].found

\* The skipped entry was below a newer entry of its key: nothing changes.
C35_ShadowedWitness ==
    /\ Skipped
    /\ \E j \in OtherHolders : j < result.i
    /\ saved[result.key].found
    /\ View(Engine) = saved

=============================================================================
